---------------------------- MODULE Spec2Model ----------------------------
(***************************************************************************)
(* A model of the matching and filtering engine of the class-search MCP    *)
(* tool: the time codec (time_to_minutes / minutes_to_time), the value     *)
(* resolver (fuzzy_match_value) and the conflict filter of                 *)
(* check_schedule_conflicts.                                               *)
(*                                                                         *)
(* Python strings are modelled as sequences of one-character strings, so   *)
(* that strip, upper, lower, replace, split, startswith, "in" and int()    *)
(* are computed character by character as the interpreter computes them.   *)
(* An Optional value is the empty sequence (None) or a one-element         *)
(* sequence <<v>>.                                                         *)
(***************************************************************************)
EXTENDS Integers, Sequences, FiniteSets, TLC

VARIABLES
    pc,            \* position of the modelled call: what has run so far
    minutes,       \* time codec: the integer handed to minutes_to_time, or None
    time_given,    \* time codec: the parts the caller's text was written from, or None
    time_str,      \* time codec: the text handed to time_to_minutes
    parsed,        \* time codec: the value time_to_minutes returned
    res_input,     \* resolver: the caller's text
    res_catalog,   \* resolver: the catalog, in the store's order
    res_threshold, \* resolver: the minimum similarity, a fraction [num, den]
    res_result,    \* resolver: the value fuzzy_match_value returned
    req,           \* check_schedule_conflicts: the arguments of the call
    store,         \* the document store: its subject catalog, the documents it
                   \* returns to the candidate search, and whether a request fails
    resp,          \* check_schedule_conflicts: what the call returned, or None
    calls,         \* the requests the call sent to the store, in order
    kept           \* check_schedule_conflicts: non_conflicting before truncation

timeVars == <<minutes, time_given, time_str, parsed>>

resolverVars == <<res_input, res_catalog, res_threshold, res_result>>

conflictVars == <<req, store, resp, calls, kept>>

vars == <<pc, timeVars, resolverVars, conflictVars>>

---------------------------------------------------------------------------
(* Optional values *)

None == <<>>

Some(v) == <<v>>

---------------------------------------------------------------------------
(* Characters and the str methods the code uses *)

LowerChars ==
    <<"a","b","c","d","e","f","g","h","i","j","k","l","m",
      "n","o","p","q","r","s","t","u","v","w","x","y","z">>

UpperChars ==
    <<"A","B","C","D","E","F","G","H","I","J","K","L","M",
      "N","O","P","Q","R","S","T","U","V","W","X","Y","Z">>

DigitChars == <<"0","1","2","3","4","5","6","7","8","9">>

IsDigit(c) == \E i \in 1..10 : DigitChars[i] = c

DigitVal(c) == (CHOOSE i \in 1..10 : DigitChars[i] = c) - 1

IsSpace(c) == c \in {" ", "\t", "\n"}

UpperChar(c) ==
    IF \E i \in 1..26 : LowerChars[i] = c
    THEN UpperChars[CHOOSE i \in 1..26 : LowerChars[i] = c]
    ELSE c

LowerChar(c) ==
    IF \E i \in 1..26 : UpperChars[i] = c
    THEN LowerChars[CHOOSE i \in 1..26 : UpperChars[i] = c]
    ELSE c

\* str.upper()
Upper(s) == [i \in 1..Len(s) |-> UpperChar(s[i])]

\* str.lower()
Lower(s) == [i \in 1..Len(s) |-> LowerChar(s[i])]

\* str.strip(): leading and trailing whitespace removed
Strip(s) ==
    LET keep == {i \in 1..Len(s) : ~IsSpace(s[i])}
    IN  IF keep = {} THEN <<>>
        ELSE LET lo == CHOOSE i \in keep : \A j \in keep : i <= j
                 hi == CHOOSE i \in keep : \A j \in keep : j <= i
             IN  SubSeq(s, lo, hi)

\* s[i:].startswith(sub), i counted from 1
MatchAt(s, sub, i) ==
    /\ i >= 1
    /\ i + Len(sub) - 1 <= Len(s)
    /\ \A k \in 1..Len(sub) : s[i + k - 1] = sub[k]

\* str.startswith(sub)
StartsWith(s, sub) == MatchAt(s, sub, 1)

\* sub in s
Contains(s, sub) == \E i \in 1..(Len(s) + 1) : MatchAt(s, sub, i)

\* s.replace(sub, ""): the non-overlapping occurrences, left to right
RECURSIVE RemoveAll(_, _)
RemoveAll(s, sub) ==
    IF s = <<>> THEN <<>>
    ELSE IF MatchAt(s, sub, 1)
         THEN RemoveAll(SubSeq(s, Len(sub) + 1, Len(s)), sub)
         ELSE <<Head(s)>> \o RemoveAll(Tail(s), sub)

\* s.split(sep)[0] for a one-character sep
FirstPart(s, sep) ==
    IF \E i \in 1..Len(s) : s[i] = sep
    THEN SubSeq(s, 1, (CHOOSE i \in 1..Len(s) :
                          s[i] = sep /\ \A j \in 1..(i - 1) : s[j] # sep) - 1)
    ELSE s

\* sep.join(s.split(sep)[1:]): what follows the first sep
AfterFirst(s, sep) ==
    LET i == CHOOSE k \in 1..Len(s) : s[k] = sep /\ \A j \in 1..(k - 1) : s[j] # sep
    IN  SubSeq(s, i + 1, Len(s))

\* s.split(sep)[1], for s holding at least one sep
SecondPart(s, sep) == FirstPart(AfterFirst(s, sep), sep)

RECURSIVE DigitsValue(_)
DigitsValue(s) ==
    IF s = <<>> THEN 0
    ELSE DigitsValue(SubSeq(s, 1, Len(s) - 1)) * 10 + DigitVal(s[Len(s)])

\* int(s): whitespace around it ignored, an optional sign, decimal digits
\* with single underscores between them; ValueError (None) otherwise
ParseInt(s) ==
    LET t    == Strip(s)
        sign == IF t # <<>> /\ t[1] \in {"+", "-"} THEN 1 ELSE 0
        body == SubSeq(t, sign + 1, Len(t))
        ok   == /\ body # <<>>
                /\ IsDigit(body[1])
                /\ IsDigit(body[Len(body)])
                /\ \A i \in 1..Len(body) : IsDigit(body[i]) \/ body[i] = "_"
                /\ \A i \in 1..(Len(body) - 1) : ~(body[i] = "_" /\ body[i + 1] = "_")
        mag  == DigitsValue(SelectSeq(body, IsDigit))
    IN  IF ~ok THEN None
        ELSE IF sign = 1 /\ t[1] = "-" THEN Some(0 - mag) ELSE Some(mag)

RECURSIVE IntToStr(_)
\* str(n) for n >= 0
IntToStr(n) ==
    IF n < 10 THEN <<DigitChars[n + 1]>>
    ELSE IntToStr(n \div 10) \o <<DigitChars[(n % 10) + 1]>>

\* f"{n:02d}" for n >= 0
Pad2(n) == IF n < 10 THEN <<"0">> \o IntToStr(n) ELSE IntToStr(n)

---------------------------------------------------------------------------
(* Time utilities: opensearch_client.py *)

\* AdjustHour without the "hours < 12" test: noon PM becomes 24:00
AdjustHour_AlwaysAdd(hours, is_pm, is_am) ==
    IF is_pm THEN hours + 12
    ELSE IF is_am /\ hours = 12 THEN 0
    ELSE hours

\* The 12-hour adjustment of time_to_minutes
AdjustHour(hours, is_pm, is_am) ==
    IF is_pm /\ hours < 12 THEN hours + 12
    ELSE IF is_am /\ hours = 12 THEN 0
    ELSE hours

time_to_minutes(s) ==
    IF s = <<>> THEN None
    ELSE
      LET up    == Upper(Strip(s))
          is_pm == Contains(up, <<"P","M">>)
          is_am == Contains(up, <<"A","M">>)
          body  == Strip(RemoveAll(RemoveAll(up, <<"A","M">>), <<"P","M">>))
          colon == Contains(body, <<":">>)
          hours == IF colon THEN ParseInt(FirstPart(body, ":")) ELSE ParseInt(body)
          mins  == IF colon THEN ParseInt(SecondPart(body, ":")) ELSE Some(0)
      IN  IF hours = None \/ mins = None THEN None
          ELSE Some(AdjustHour(hours[1], is_pm, is_am) * 60 + mins[1])

\* minutes_to_time with "hours <= 12" for the AM branch: noon rendered as AM
minutes_to_time_NoonAM(m) ==
    LET hours == m \div 60
        mins  == m % 60
    IN  IF hours = 0 THEN <<"1","2",":">> \o Pad2(mins) \o <<" ","A","M">>
        ELSE IF hours <= 12 THEN IntToStr(hours) \o <<":">> \o Pad2(mins) \o <<" ","A","M">>
        ELSE IntToStr(hours - 12) \o <<":">> \o Pad2(mins) \o <<" ","P","M">>

minutes_to_time(m) ==
    LET hours == m \div 60
        mins  == m % 60
    IN  IF hours = 0 THEN <<"1","2",":">> \o Pad2(mins) \o <<" ","A","M">>
        ELSE IF hours < 12 THEN IntToStr(hours) \o <<":">> \o Pad2(mins) \o <<" ","A","M">>
        ELSE IF hours = 12 THEN <<"1","2",":">> \o Pad2(mins) \o <<" ","P","M">>
        ELSE IntToStr(hours - 12) \o <<":">> \o Pad2(mins) \o <<" ","P","M">>

---------------------------------------------------------------------------
(* Value resolver: opensearch_client.py, fuzzy_match_value *)

\* common_mappings: (full name, code), as written in the function
common_mappings ==
    <<
      <<<<"c","o","m","p","u","t","e","r"," ","s","c","i","e","n","c","e">>,
        <<"C","S">>>>,
      <<<<"m","a","t","h","e","m","a","t","i","c","s">>,
        <<"M","A","T","H">>>>,
      <<<<"b","i","o","l","o","g","y">>,
        <<"B","I","O","L">>>>,
      <<<<"c","h","e","m","i","s","t","r","y">>,
        <<"C","H","E","M">>>>,
      <<<<"p","h","y","s","i","c","s">>,
        <<"P","H","Y","S">>>>,
      <<<<"e","n","g","l","i","s","h">>,
        <<"E","N","G","L">>>>,
      <<<<"h","i","s","t","o","r","y">>,
        <<"H","I","S","T">>>>,
      <<<<"p","s","y","c","h","o","l","o","g","y">>,
        <<"P","S","Y","C">>>>,
      <<<<"e","c","o","n","o","m","i","c","s">>,
        <<"E","C","O","N">>>>,
      <<<<"p","o","l","i","t","i","c","a","l"," ","s","c","i","e","n","c","e">>,
        <<"P","O","L","S">>>>,
      <<<<"s","o","c","i","o","l","o","g","y">>,
        <<"S","O","C">>>>,
      <<<<"p","h","i","l","o","s","o","p","h","y">>,
        <<"P","H","I","L">>>>,
      <<<<"e","n","g","i","n","e","e","r","i","n","g">>,
        <<"E","N","G","R">>>>,
      <<<<"m","u","s","i","c">>,
        <<"M","U","S">>>>,
      <<<<"a","r","t">>,
        <<"A","R","T">>>>,
      <<<<"b","u","s","i","n","e","s","s">>,
        <<"B","U","S">>>>,
      <<<<"a","c","c","o","u","n","t","i","n","g">>,
        <<"A","C","C","T">>>>,
      <<<<"m","a","r","k","e","t","i","n","g">>,
        <<"M","K","T","G">>>>,
      <<<<"m","a","n","a","g","e","m","e","n","t">>,
        <<"M","G","T">>>>,
      <<<<"f","i","n","a","n","c","e">>,
        <<"F","I","N">>>>,
      <<<<"c","o","m","m","u","n","i","c","a","t","i","o","n">>,
        <<"C","O","M","M">>>>,
      <<<<"n","u","r","s","i","n","g">>,
        <<"N","U","R","S">>>>,
      <<<<"e","d","u","c","a","t","i","o","n">>,
        <<"E","D","U","C">>>>,
      <<<<"k","i","n","e","s","i","o","l","o","g","y">>,
        <<"K","I","N","E","S">>>>
    >>

\* common_mappings[key], or None when key is not in the table
MappingFor(key) ==
    IF \E i \in 1..Len(common_mappings) : common_mappings[i][1] = key
    THEN Some(common_mappings[CHOOSE i \in 1..Len(common_mappings) :
                                 common_mappings[i][1] = key][2])
    ELSE None

\* The first element of seq, in order, whose flag in hit is TRUE, or None:
\* "for v in seq: if <test>: return v"
FirstHit(seq, hit) ==
    IF \E i \in 1..Len(seq) : hit[i]
    THEN Some(seq[CHOOSE i \in 1..Len(seq) : hit[i] /\ \A j \in 1..(i - 1) : ~hit[j]])
    ELSE None

\* s.split(): the maximal runs of non-whitespace characters, in order
RECURSIVE Words(_)
Words(s) ==
    LET t == Strip(s)
    IN  IF t = <<>> THEN <<>>
        ELSE IF \E i \in 1..Len(t) : IsSpace(t[i])
             THEN LET k == CHOOSE i \in 1..Len(t) :
                               IsSpace(t[i]) /\ \A j \in 1..(i - 1) : ~IsSpace(t[j])
                  IN  <<SubSeq(t, 1, k - 1)>> \o Words(SubSeq(t, k + 1, Len(t)))
             ELSE <<t>>

\* "".join(w[0] for w in s.split() if w)
Initials(s) == LET w == Words(s) IN [i \in 1..Len(w) |-> w[i][1]]

\* set(s)
CharSet(s) == {s[i] : i \in 1..Len(s)}

\* s.replace(" ", "")
NoSpaces(s) == SelectSeq(s, LAMBDA c : c # " ")

\* Strategy 1 comparing the value as stored, without lower()
ExactMatch_CaseSensitive(input_lower, valid_values) ==
    FirstHit(valid_values,
             [i \in 1..Len(valid_values) |-> valid_values[i] = input_lower])

\* Strategy 1: exact match (case-insensitive)
ExactMatch(input_lower, valid_values) ==
    FirstHit(valid_values,
             [i \in 1..Len(valid_values) |-> Lower(valid_values[i]) = input_lower])

\* Strategy 2: input is a prefix of a valid value
PrefixMatch(input_lower, valid_values) ==
    FirstHit(valid_values,
             [i \in 1..Len(valid_values) |-> StartsWith(Lower(valid_values[i]), input_lower)])

\* Strategy 3 returning the table's code whether or not it is a valid value
AbbreviationMatch_Unchecked(input_lower, valid_values) ==
    MappingFor(input_lower)

\* Strategy 3: the abbreviation table, used when the code is a valid value
AbbreviationMatch(input_lower, valid_values) ==
    LET abbrev == MappingFor(input_lower)
    IN  IF abbrev # None /\ \E i \in 1..Len(valid_values) : valid_values[i] = abbrev[1]
        THEN abbrev
        ELSE None

\* Strategy 4: a valid value contains the input
SubstringMatch(input_lower, valid_values) ==
    FirstHit(valid_values,
             [i \in 1..Len(valid_values) |-> Contains(Lower(valid_values[i]), input_lower)])

\* Strategy 5: a valid value equals the initials of the input's words
InitialsMatch(input_lower, valid_values) ==
    FirstHit(valid_values,
             [i \in 1..Len(valid_values) |-> Lower(valid_values[i]) = Initials(input_lower)])

\* The similarity of strategy 6, as the pair (intersection, union) of the
\* character sets: the score is intersection / union, 0 when union = 0
Overlap(input_lower, valid) ==
    LET input_chars == CharSet(NoSpaces(input_lower))
        valid_chars == CharSet(Lower(valid))
    IN  [inter |-> Cardinality(input_chars \cap valid_chars),
         union |-> Cardinality(input_chars \cup valid_chars)]

\* score(a) > score(b), scores as (intersection, union) pairs
ScoreGreater(a, b) ==
    LET an == IF a.union > 0 THEN a.inter ELSE 0
        ad == IF a.union > 0 THEN a.union ELSE 1
        bn == IF b.union > 0 THEN b.inter ELSE 0
        bd == IF b.union > 0 THEN b.union ELSE 1
    IN  an * bd > bn * ad

\* score(a) >= threshold, the threshold a fraction [num, den]
ScoreAtLeast(a, threshold) ==
    LET an == IF a.union > 0 THEN a.inter ELSE 0
        ad == IF a.union > 0 THEN a.union ELSE 1
    IN  an * threshold.den >= threshold.num * ad

\* A variant of the loop that replaces best_match on an equal score
RECURSIVE BestFrom_LastOnTie(_, _, _, _, _, _)
BestFrom_LastOnTie(input_lower, valid_values, threshold, i, best_match, best_score) ==
    IF i > Len(valid_values) THEN best_match
    ELSE LET score == Overlap(input_lower, valid_values[i])
         IN  IF ~ScoreGreater(best_score, score) /\ ScoreGreater(score, [inter |-> 0, union |-> 1])
                /\ ScoreAtLeast(score, threshold)
             THEN BestFrom_LastOnTie(input_lower, valid_values, threshold, i + 1,
                                     Some(valid_values[i]), score)
             ELSE BestFrom_LastOnTie(input_lower, valid_values, threshold, i + 1,
                                     best_match, best_score)

\* Strategy 6: the loop over valid_values from position i on, carrying
\* best_match (None or a value) and best_score
RECURSIVE BestFrom(_, _, _, _, _, _)
BestFrom(input_lower, valid_values, threshold, i, best_match, best_score) ==
    IF i > Len(valid_values) THEN best_match
    ELSE LET score == Overlap(input_lower, valid_values[i])
         IN  IF ScoreGreater(score, best_score) /\ ScoreAtLeast(score, threshold)
             THEN BestFrom(input_lower, valid_values, threshold, i + 1,
                           Some(valid_values[i]), score)
             ELSE BestFrom(input_lower, valid_values, threshold, i + 1,
                           best_match, best_score)

SimilarityMatch(input_lower, valid_values, threshold) ==
    BestFrom(input_lower, valid_values, threshold, 1, None, [inter |-> 0, union |-> 1])

\* The cascade with strategy 4 tried before strategy 3
Cascade_SubstringFirst(input_lower, valid_values, threshold) ==
    LET s1 == ExactMatch(input_lower, valid_values)
        s2 == PrefixMatch(input_lower, valid_values)
        s3 == AbbreviationMatch(input_lower, valid_values)
        s4 == SubstringMatch(input_lower, valid_values)
        s5 == InitialsMatch(input_lower, valid_values)
    IN  IF s1 # None THEN s1
        ELSE IF s2 # None THEN s2
        ELSE IF s4 # None THEN s4
        ELSE IF s3 # None THEN s3
        ELSE IF s5 # None THEN s5
        ELSE SimilarityMatch(input_lower, valid_values, threshold)

\* The strategies in the order the function tries them; the first that
\* finds a value returns it
Cascade(input_lower, valid_values, threshold) ==
    LET s1 == ExactMatch(input_lower, valid_values)
        s2 == PrefixMatch(input_lower, valid_values)
        s3 == AbbreviationMatch(input_lower, valid_values)
        s4 == SubstringMatch(input_lower, valid_values)
        s5 == InitialsMatch(input_lower, valid_values)
    IN  IF s1 # None THEN s1
        ELSE IF s2 # None THEN s2
        ELSE IF s3 # None THEN s3
        ELSE IF s4 # None THEN s4
        ELSE IF s5 # None THEN s5
        ELSE SimilarityMatch(input_lower, valid_values, threshold)

\* What the function compares the valid values with
InputLower(input_value) == Strip(Lower(input_value))

fuzzy_match_value(input_value, valid_values, threshold) ==
    IF input_value = <<>> \/ valid_values = <<>> THEN None
    ELSE Cascade(InputLower(input_value), valid_values, threshold)

\* The default threshold, 0.6
DefaultThreshold == [num |-> 6, den |-> 10]

---------------------------------------------------------------------------
(* Terms and subjects: opensearch_client.py *)

\* dict.get(key, default)
Get(d, key, default) == IF key \in DOMAIN d THEN d[key] ELSE default

\* seq[:n]
PyPrefix(seq, n) ==
    IF n >= 0
    THEN SubSeq(seq, 1, IF n < Len(seq) THEN n ELSE Len(seq))
    ELSE SubSeq(seq, 1, IF Len(seq) + n > 0 THEN Len(seq) + n ELSE 0)

\* (is_valid, error_message)
validate_term(term) ==
    IF term = <<>> \/ Len(term) # 4
    THEN <<FALSE, "Term must be a 4-digit code (e.g., 1263 for Spring 2026)">>
    ELSE IF \E i \in 1..Len(term) : ~IsDigit(term[i])
    THEN <<FALSE, "Term must contain only digits">>
    ELSE IF term[1] # "1"
    THEN <<FALSE, "First digit must be 1 (Boise State)">>
    ELSE IF term[4] \notin {"3", "6", "9"}
    THEN <<FALSE, "Last digit must be 3 (Spring), 6 (Summer), or 9 (Fall)">>
    ELSE <<TRUE, "">>

get_index_for_term(term) == term \o <<"_","c","l","a","s","s","e","s","_","c","u","r","r","e","n","t">>

format_term_description(term) ==
    IF Len(term) # 4 THEN term
    ELSE LET semester == IF term[4] = "3" THEN <<"S","p","r","i","n","g">>
                         ELSE IF term[4] = "6" THEN <<"S","u","m","m","e","r">>
                         ELSE IF term[4] = "9" THEN <<"F","a","l","l">>
                         ELSE <<"U","n","k","n","o","w","n">>
         IN  semester \o <<" ", "2", "0">> \o SubSeq(term, 2, 3)

\* The request get_valid_values sends: a terms aggregation on one field
AggregationRequest(index, field) ==
    [index |-> index,
     body |-> [size |-> 0, aggs |-> [field |-> field, size |-> 500]]]

\* The suggestions of validate_and_match_subject: the first 10 valid
\* subjects that start with the upper-cased first character of the input
SubjectSuggestions(valid_subjects, subject) ==
    LET first_char == IF subject # <<>> THEN <<UpperChar(subject[1])>> ELSE <<>>
    IN  PyPrefix(SelectSeq(valid_subjects, LAMBDA v : StartsWith(v, first_char)), 10)

\* What validate_and_match_subject returns, given the request it sent, the
\* match and the suggestions.  raised: the fetch threw, and so does the
\* function; otherwise (matched, error), one of them None.
SubjectOutcome(st, subject, request, matched, suggestions) ==
    IF st.catalog_fails
    THEN [raised |-> TRUE, matched |-> None, error |-> None, calls |-> <<request>>]
    ELSE IF matched # None /\ matched[1] # <<>>
    THEN [raised |-> FALSE, matched |-> matched, error |-> None, calls |-> <<request>>]
    ELSE IF suggestions # <<>>
    THEN [raised |-> FALSE, matched |-> None, calls |-> <<request>>,
          error |-> Some([msg |-> "Unknown subject. Similar subjects:",
                          subject |-> subject, suggestions |-> suggestions])]
    ELSE [raised |-> FALSE, matched |-> None, calls |-> <<request>>,
          error |-> Some([msg |-> "Unknown subject. Use get_filter_options to see available subjects.",
                          subject |-> subject])]

\* validate_and_match_subject(client, index, subject): the catalog is fetched
\* from the store st, then matched
validate_and_match_subject(st, index, subject) ==
    SubjectOutcome(st, subject,
                   AggregationRequest(index, "subject"),
                   fuzzy_match_value(subject, st.subjects, DefaultThreshold),
                   SubjectSuggestions(st.subjects, subject))

---------------------------------------------------------------------------
(* check_schedule_conflicts: app.py *)

\* format_class_summary(doc), the parts that identify the class and show
\* its schedule
format_class_summary(doc) ==
    LET days       == Get(doc, "meetingDays", <<>>)
        start_mins == Get(doc, "meetingStartTimeInMinutes", 0)
        end_mins   == Get(doc, "meetingEndTimeInMinutes", 0)
    IN  [class_number |-> Get(doc, "classNumber", ""),
         days_str |-> IF days # <<>> THEN days ELSE <<"TBA">>,
         time_str |-> IF start_mins # 0 /\ end_mins # 0
                      THEN <<minutes_to_time(start_mins), minutes_to_time(end_mins)>>
                      ELSE <<"TBA">>]

\* A variant that narrows the interval by the buffer instead of widening it
ExpandBlock_Narrowed(days, start_mins, end_mins, buffer_minutes) ==
    [days |-> {days[i] : i \in 1..Len(days)},
     start |-> start_mins + buffer_minutes,
     end |-> end_mins - buffer_minutes]

\* The entry appended to conflict_blocks: the block's days as a set and its
\* interval widened by the buffer on both sides
ExpandBlock(days, start_mins, end_mins, buffer_minutes) ==
    [days |-> {days[i] : i \in 1..Len(days)},
     start |-> start_mins - buffer_minutes,
     end |-> end_mins + buffer_minutes]

RECURSIVE ParseBlocksFrom(_, _, _, _)
\* One turn of the validation loop, for block i with the values read from
\* it: a malformed block ends the loop with an error, any other is appended
\* to conflict_blocks and the loop goes on
BlockOutcome(existing_classes, buffer_minutes, i, conflict_blocks, is_dict, days, start_str, end_str, start_mins, end_mins) ==
    IF ~is_dict
    THEN [error |-> Some([msg |-> "existing_classes[i] must be an object with days, start_time, end_time",
                          i |-> i - 1]),
          blocks |-> <<>>]
    ELSE IF days = <<>> \/ start_str = <<>> \/ end_str = <<>>
    THEN [error |-> Some([msg |-> "existing_classes[i] requires days, start_time, and end_time",
                          i |-> i - 1]),
          blocks |-> <<>>]
    ELSE IF start_mins = None
    THEN [error |-> Some([msg |-> "Could not parse start_time in existing_classes[i]",
                          i |-> i - 1, text |-> start_str]),
          blocks |-> <<>>]
    ELSE IF end_mins = None
    THEN [error |-> Some([msg |-> "Could not parse end_time in existing_classes[i]",
                          i |-> i - 1, text |-> end_str]),
          blocks |-> <<>>]
    ELSE ParseBlocksFrom(existing_classes, buffer_minutes, i + 1,
             Append(conflict_blocks,
                    ExpandBlock(days, start_mins[1], end_mins[1], buffer_minutes)))

\* The validation loop over existing_classes from position i on (i counted
\* from 1; the messages count from 0)
ParseBlocksFrom(existing_classes, buffer_minutes, i, conflict_blocks) ==
    IF i > Len(existing_classes)
    THEN [error |-> None, blocks |-> conflict_blocks]
    ELSE BlockOutcome(existing_classes, buffer_minutes, i, conflict_blocks,
                      existing_classes[i].is_dict,
                      Get(existing_classes[i].items, "days", <<>>),
                      Get(existing_classes[i].items, "start_time", <<>>),
                      Get(existing_classes[i].items, "end_time", <<>>),
                      time_to_minutes(Get(existing_classes[i].items, "start_time", <<>>)),
                      time_to_minutes(Get(existing_classes[i].items, "end_time", <<>>)))

ParseBlocks(existing_classes, buffer_minutes) ==
    ParseBlocksFrom(existing_classes, buffer_minutes, 1, <<>>)

\* A variant that looks at the meeting days only
NoSchedule_DaysOnly(class_days, class_start, class_end) ==
    class_days = {}

\* "Online/async classes with no meeting time don't conflict"
NoSchedule(class_days, class_start, class_end) ==
    class_days = {} \/ (class_start = 0 /\ class_end = 0)

\* A variant with closed intervals: touching counts as overlapping
ConflictsWith_Closed(class_days, class_start, class_end, block) ==
    /\ class_days \cap block.days # {}
    /\ class_start <= block.end
    /\ class_end >= block.start

\* The test of one class against one conflict block: the days overlap and
\* the times overlap
ConflictsWith(class_days, class_start, class_end, block) ==
    /\ class_days \cap block.days # {}
    /\ class_start < block.end
    /\ class_end > block.start

\* Whether the filter loop appends doc to non_conflicting
IsNonConflicting(doc, conflict_blocks) ==
    LET days        == Get(doc, "meetingDays", <<>>)
        class_days  == {days[i] : i \in 1..Len(days)}
        class_start == Get(doc, "meetingStartTimeInMinutes", 0)
        class_end   == Get(doc, "meetingEndTimeInMinutes", 0)
    IN  \/ NoSchedule(class_days, class_start, class_end)
        \/ ~\E k \in 1..Len(conflict_blocks) :
               ConflictsWith(class_days, class_start, class_end, conflict_blocks[k])

\* non_conflicting, as the filter loop builds it
NonConflicting(documents, conflict_blocks) ==
    SelectSeq(documents, LAMBDA doc : IsNonConflicting(doc, conflict_blocks))

\* The filter clauses of the candidate query, in the order they are appended
ConflictFilterClauses(r, matched_subject) ==
    (IF matched_subject # None /\ matched_subject[1] # <<>>
     THEN <<[term |-> [field |-> "subject", value |-> matched_subject[1]]]>> ELSE <<>>)
    \o (IF r.academic_level # None
        THEN <<[term |-> [field |-> "academicCareer", value |-> r.academic_level[1]]]>> ELSE <<>>)
    \o (IF r.instruction_mode # None
        THEN <<[term |-> [field |-> "instructionModeDescription", value |-> r.instruction_mode[1]]]>>
        ELSE <<>>)
    \o (IF r.has_open_seats
        THEN <<[range |-> [field |-> "availableSeats", op |-> "gt", value |-> 0]]>> ELSE <<>>)
    \o (IF r.min_credits # None
        THEN <<[range |-> [field |-> "courseCreditMin", op |-> "gte", value |-> r.min_credits[1]]]>>
        ELSE <<>>)
    \o (IF r.max_credits # None
        THEN <<[range |-> [field |-> "courseCreditMax", op |-> "lte", value |-> r.max_credits[1]]]>>
        ELSE <<>>)

\* The candidate search: at most 200 classes, sorted by subject and number
CandidateRequest(index, filter_clauses) ==
    [index |-> index,
     body |-> [query |-> IF filter_clauses # <<>>
                         THEN [bool |-> [filter |-> filter_clauses]]
                         ELSE [match_all |-> TRUE],
               size |-> 200,
               sort |-> <<"subject", "catalogNumber">>]]

\* conflict_summary
ConflictSummary(existing_classes) ==
    [i \in 1..Len(existing_classes) |->
        [days |-> Get(existing_classes[i].items, "days", <<>>),
         start_time |-> Get(existing_classes[i].items, "start_time", <<>>),
         end_time |-> Get(existing_classes[i].items, "end_time", <<>>)]]

\* A variant that counts after the list is cut
ConflictResult_CountAfterCut(r, non_conflicting) ==
    LET limit == IF r.results_per_page < 50 THEN r.results_per_page ELSE 50
        shown == PyPrefix(non_conflicting, limit)
    IN  IF Len(shown) = 0
        THEN [term |-> format_term_description(r.term),
              avoiding |-> ConflictSummary(r.existing_classes),
              buffer_minutes |-> r.buffer_minutes,
              total_results |-> 0,
              message |-> "No classes found that avoid your schedule conflicts. Try different subjects or removing some constraints.",
              classes |-> <<>>]
        ELSE [term |-> format_term_description(r.term),
              avoiding |-> ConflictSummary(r.existing_classes),
              buffer_minutes |-> r.buffer_minutes,
              total_results |-> Len(shown),
              showing |-> Len(shown),
              classes |-> [i \in 1..Len(shown) |-> format_class_summary(shown[i])]]

\* The result returned after the filter loop: the count is taken, then the
\* list is cut to min(results_per_page, 50)
ConflictResult(r, non_conflicting) ==
    LET total_found == Len(non_conflicting)
        limit       == IF r.results_per_page < 50 THEN r.results_per_page ELSE 50
        shown       == PyPrefix(non_conflicting, limit)
    IN  IF total_found = 0
        THEN [term |-> format_term_description(r.term),
              avoiding |-> ConflictSummary(r.existing_classes),
              buffer_minutes |-> r.buffer_minutes,
              total_results |-> 0,
              message |-> "No classes found that avoid your schedule conflicts. Try different subjects or removing some constraints.",
              classes |-> <<>>]
        ELSE [term |-> format_term_description(r.term),
              avoiding |-> ConflictSummary(r.existing_classes),
              buffer_minutes |-> r.buffer_minutes,
              total_results |-> total_found,
              showing |-> Len(shown),
              classes |-> [i \in 1..Len(shown) |-> format_class_summary(shown[i])]]

\* The truthiness of an Optional[str] argument: given and not empty
Given(arg) == arg # None /\ arg[1] # <<>>

\* A variant that goes on without the subject when the catalog has no value
\* for it
ResolveSubject_DropUnknown(r, st) ==
    IF Given(r.subject) /\ (st.catalog_fails
                            \/ fuzzy_match_value(r.subject[1], st.subjects, DefaultThreshold) # None)
    THEN validate_and_match_subject(st, get_index_for_term(r.term), r.subject[1])
    ELSE [raised |-> FALSE, matched |-> None, error |-> None, calls |-> <<>>]

\* "Validate subject if provided"
ResolveSubject(r, st) ==
    IF Given(r.subject)
    THEN validate_and_match_subject(st, get_index_for_term(r.term), r.subject[1])
    ELSE [raised |-> FALSE, matched |-> None, error |-> None, calls |-> <<>>]

\* The body of check_schedule_conflicts, given what the block loop and the
\* subject validation yield, the candidate request and the filtered hits
ConflictOutcome(r, st, valid, parsing, resolved, search, non_conflicting) ==
    IF ~valid[1]
    THEN [response |-> [error |-> [msg |-> valid[2]]], calls |-> <<>>, non_conflicting |-> <<>>]
    ELSE IF r.existing_classes = <<>>
    THEN [response |-> [error |-> [msg |-> "existing_classes is required. Provide at least one time block to avoid."]],
          calls |-> <<>>, non_conflicting |-> <<>>]
    ELSE IF parsing.error # None
    THEN [response |-> [error |-> parsing.error[1]], calls |-> <<>>, non_conflicting |-> <<>>]
    ELSE IF resolved.raised
    THEN [response |-> [exception |-> "get_valid_values"],
          calls |-> resolved.calls, non_conflicting |-> <<>>]
    ELSE IF resolved.error # None
    THEN [response |-> [error |-> resolved.error[1]],
          calls |-> resolved.calls, non_conflicting |-> <<>>]
    ELSE IF st.search_fails
    THEN [response |-> [error |-> [msg |-> "Search failed"]],
          calls |-> resolved.calls \o <<search>>, non_conflicting |-> <<>>]
    ELSE [response |-> ConflictResult(r, non_conflicting),
          calls |-> resolved.calls \o <<search>>,
          non_conflicting |-> non_conflicting]

\* The candidate request, given the outcome of the subject validation
CandidateSearch(r, resolved) ==
    CandidateRequest(get_index_for_term(r.term), ConflictFilterClauses(r, resolved.matched))

\* The class list the filter loop leaves, given the outcome of the block loop
FilterHits(st, parsing) == NonConflicting(st.hits, parsing.blocks)

\* The call, given the outcomes of the block loop and of the subject
\* validation
CallOutcome(r, st, parsing, resolved) ==
    ConflictOutcome(r, st, validate_term(r.term), parsing, resolved,
                    CandidateSearch(r, resolved), FilterHits(st, parsing))

\* check_schedule_conflicts(term, existing_classes, ...) against the store
\* st: the result returned (or the exception that leaves the function), the
\* requests sent to the store, and non_conflicting before it is cut
check_schedule_conflicts(r, st) ==
    CallOutcome(r, st, ParseBlocks(r.existing_classes, r.buffer_minutes), ResolveSubject(r, st))

---------------------------------------------------------------------------
(* The time codec exercised: a caller renders a minute of the day and      *)
(* parses the text back, or parses a text of its own.                      *)

\* Largest hour and minute numerals among the caller's texts
MaxHourText == 25

MaxMinuteText == 61

\* The minutes of one day, [0,1440)
DayMinutes == 0..1439

\* What a caller writes for the hour or the minute: a numeral (plain or
\* zero-padded), a negative numeral, a non-numeric word, or nothing
HourParts ==
    {[txt |-> IntToStr(h), val |-> Some(h)] : h \in 0..MaxHourText}
    \cup {[txt |-> Pad2(h), val |-> Some(h)] : h \in 0..9}
    \cup {[txt |-> <<"-","1">>, val |-> Some(0 - 1)],
          [txt |-> <<"x">>, val |-> None],
          [txt |-> <<>>, val |-> None]}

MinuteParts ==
    {[txt |-> Pad2(m), val |-> Some(m)] : m \in 0..MaxMinuteText}
    \cup {[txt |-> <<"5">>, val |-> Some(5)],
          [txt |-> <<"-","5">>, val |-> Some(0 - 5)],
          [txt |-> <<"x","x">>, val |-> None],
          [txt |-> <<>>, val |-> None]}

Suffixes ==
    {<<>>, <<"A","M">>, <<"P","M">>, <<"a","m">>, <<"p","m">>, <<"P","m">>}

\* The text of a time written from its parts
TimeText(g) ==
    (IF g.outer THEN <<" ">> ELSE <<>>)
    \o g.hour.txt
    \o (IF g.minute = None THEN <<>> ELSE <<":">> \o g.minute[1].txt)
    \o (IF g.inner THEN <<" ">> ELSE <<>>)
    \o g.suffix
    \o (IF g.outer THEN <<" ">> ELSE <<>>)

TimeGiven ==
    [hour : HourParts,
     minute : {None} \cup {Some(p) : p \in MinuteParts},
     suffix : Suffixes,
     inner : BOOLEAN,
     outer : BOOLEAN]

\* The resolver's variables while another component is exercised
ResolverIdle ==
    /\ res_input = <<>>
    /\ res_catalog = <<>>
    /\ res_threshold = DefaultThreshold
    /\ res_result = None

\* The time codec's variables while another component is exercised
TimeIdle ==
    /\ minutes = None
    /\ time_given = None
    /\ time_str = <<>>
    /\ parsed = None

\* The variables of check_schedule_conflicts while another component is
\* exercised
ConflictIdle ==
    /\ req = None
    /\ store = None
    /\ resp = None
    /\ calls = <<>>
    /\ kept = <<>>

TimeInit ==
    /\ ResolverIdle
    /\ ConflictIdle
    /\ parsed = None
    /\ \/ /\ pc = "render"
          /\ minutes \in {Some(m) : m \in DayMinutes}
          /\ time_given = None
          /\ time_str = <<>>
       \/ /\ pc = "parse"
          /\ minutes = None
          /\ time_given \in {Some(g) : g \in TimeGiven}
          /\ time_str = TimeText(time_given[1])

\* minutes_to_time(minutes)
MinutesToTime ==
    /\ pc = "render"
    /\ time_str' = minutes_to_time(minutes[1])
    /\ pc' = "parse"
    /\ UNCHANGED <<minutes, time_given, parsed, resolverVars, conflictVars>>

\* time_to_minutes(time_str)
TimeToMinutes ==
    /\ pc = "parse"
    /\ parsed' = time_to_minutes(time_str)
    /\ pc' = "parsed"
    /\ UNCHANGED <<minutes, time_given, time_str, resolverVars, conflictVars>>

TimeNext == MinutesToTime \/ TimeToMinutes

SpecTime == TimeInit /\ [][TimeNext]_vars

---------------------------------------------------------------------------
(* Properties of the time codec *)

\* The hour and the minute a caller's text states, None where the part is
\* not a numeral; a text without ":" states minute 0
GivenHour == time_given[1].hour.val

GivenMinute ==
    IF time_given[1].minute = None THEN Some(0) ELSE time_given[1].minute[1].val

GivenSuffix == Upper(time_given[1].suffix)

\* C1: for every integer m in [0,1440), time_to_minutes(minutes_to_time(m))
\* returns exactly m, midnight (12:00 AM) and noon (12:00 PM) included.
C1_RoundTrip ==
    (pc = "parsed" /\ minutes # None) => parsed = minutes

C1_Witness ==
    /\ pc = "parsed"
    /\ minutes = Some(720)
    /\ time_str = <<"1","2",":","0","0"," ","P","M">>
    /\ parsed = Some(720)

\* C7: time_to_minutes returns no value for an hour or minute out of range
\* (hour above 23, hour above 12 with an AM/PM suffix, minute above 59, a
\* negative part), for non-numeric text and for the empty string; hence
\* every value it returns lies in [0,1440).
C7_OutOfRangeFails ==
    (pc = "parsed" /\ time_given # None) =>
        /\ ( \/ time_str = <<>>
             \/ GivenHour = None
             \/ GivenMinute = None
             \/ GivenHour[1] < 0
             \/ GivenHour[1] > 23
             \/ (GivenHour[1] > 12 /\ GivenSuffix # <<>>)
             \/ GivenMinute[1] < 0
             \/ GivenMinute[1] > 59 ) => parsed = None
        /\ parsed # None => parsed[1] \in DayMinutes

\* C8: for h in 1..12 and mm in 0..59, "h:mm PM" is (h mod 12 + 12)*60 + mm
\* and "h:mm AM" is (h mod 12)*60 + mm, whatever the suffix's casing and the
\* whitespace around the parts; without a suffix and h in 0..23 the result
\* is h*60 + mm; a bare hour means h:00.
C8_TwelveHourRule ==
    (/\ pc = "parsed"
     /\ time_given # None
     /\ GivenHour # None
     /\ GivenMinute # None
     /\ GivenMinute[1] \in 0..59) =>
        /\ (GivenSuffix = <<"P","M">> /\ GivenHour[1] \in 1..12) =>
               parsed = Some(((GivenHour[1] % 12) + 12) * 60 + GivenMinute[1])
        /\ (GivenSuffix = <<"A","M">> /\ GivenHour[1] \in 1..12) =>
               parsed = Some((GivenHour[1] % 12) * 60 + GivenMinute[1])
        /\ (GivenSuffix = <<>> /\ GivenHour[1] \in 0..23) =>
               parsed = Some(GivenHour[1] * 60 + GivenMinute[1])

C8_Witness ==
    /\ pc = "parsed"
    /\ time_given # None
    /\ time_str = <<"2",":","3","0"," ","P","M">>
    /\ parsed = Some(870)

---------------------------------------------------------------------------
(* The resolver exercised: one call of fuzzy_match_value on a caller's     *)
(* text and a catalog.                                                     *)

\* Longest catalog handed to the resolver
MaxCatalog == 3

\* Values a catalog may hold: codes, the same code in another casing,
\* descriptive names, a padded code and the empty key
CatalogPool ==
    {<<"C","S">>,
     <<"c","s">>,
     <<"M","A","T","H">>,
     <<"M","U","S">>,
     <<"M","u","s","i","c"," ","E","d">>,
     <<"P","o","p"," ","M","u","s","i","c"," ","S","t">>,
     <<"C","O","M","P","S">>,
     <<" ","C","S">>,
     <<>>}

\* Texts a caller may give
InputPool ==
    {<<"c","s">>,
     <<"C","S">>,
     <<" ","c","s">>,
     <<"C","s"," ">>,
     <<"m","u","s">>,
     <<"m","u","s","i","c">>,
     <<"m">>,
     <<"c"," ","s">>,
     <<"c","o","m","p"," ","s","c","i">>,
     <<"m","a","t","h","e","m","a","t","i","c","s">>,
     <<"m","o","t","h">>,
     <<"x","y","z">>,
     <<>>,
     <<" ">>,
     <<"M","U","S","I","C"," ","E","D">>,
     <<"c","o","m","p","u","t","e","r"," ","s","c","i","e","n","c","e">>}

\* The catalogs: a terms aggregation returns each key once
Catalogs ==
    UNION {{c \in [1..n -> CatalogPool] : \A i, j \in 1..n : i # j => c[i] # c[j]} :
           n \in 0..MaxCatalog}

ResolverInit ==
    /\ TimeIdle
    /\ ConflictIdle
    /\ pc = "resolve"
    /\ res_input \in InputPool
    /\ res_catalog \in Catalogs
    /\ res_threshold = DefaultThreshold
    /\ res_result = None

\* fuzzy_match_value(res_input, res_catalog, res_threshold)
FuzzyMatchValue ==
    /\ pc = "resolve"
    /\ res_result' = fuzzy_match_value(res_input, res_catalog, res_threshold)
    /\ pc' = "resolved"
    /\ UNCHANGED <<res_input, res_catalog, res_threshold, timeVars, conflictVars>>

ResolverNext == FuzzyMatchValue

SpecResolver == ResolverInit /\ [][ResolverNext]_vars

---------------------------------------------------------------------------
(* Properties of the resolver *)

\* The position of the first catalog value equal to text once lower-cased,
\* 0 when there is none
FirstEqualIgnoringCase(text) ==
    IF \E i \in 1..Len(res_catalog) : Lower(res_catalog[i]) = text
    THEN CHOOSE i \in 1..Len(res_catalog) :
             /\ Lower(res_catalog[i]) = text
             /\ \A j \in 1..(i - 1) : Lower(res_catalog[j]) # text
    ELSE 0

\* C9, as stated: if the catalog contains a value equal to the input
\* case-insensitively, fuzzy_match_value returns the first such value in
\* catalog order, in its catalog casing, whatever the other strategies give.
C9_ExactWins ==
    (pc = "resolved" /\ FirstEqualIgnoringCase(Lower(res_input)) # 0) =>
        res_result = Some(res_catalog[FirstEqualIgnoringCase(Lower(res_input))])

\* C9, amended: if the input is not empty and the catalog contains a value
\* equal, case-insensitively, to the input without its surrounding
\* whitespace, fuzzy_match_value returns the first such value in catalog
\* order, in its catalog casing, whatever the other strategies give.
C9_ExactWinsAfterTrim ==
    (/\ pc = "resolved"
     /\ res_input # <<>>
     /\ FirstEqualIgnoringCase(Strip(Lower(res_input))) # 0) =>
        res_result = Some(res_catalog[FirstEqualIgnoringCase(Strip(Lower(res_input)))])

\* "mus" is a prefix of "Music Ed", which comes first, and equals "MUS"
C9_Witness ==
    /\ pc = "resolved"
    /\ res_input = <<"m","u","s">>
    /\ res_catalog = <<<<"M","u","s","i","c"," ","E","d">>, <<"M","U","S">>>>
    /\ res_result = Some(<<"M","U","S">>)

\* What each strategy finds in a call that reaches the strategies
StrategyResults ==
    LET il == InputLower(res_input)
    IN  <<ExactMatch(il, res_catalog),
          PrefixMatch(il, res_catalog),
          AbbreviationMatch(il, res_catalog),
          SubstringMatch(il, res_catalog),
          InitialsMatch(il, res_catalog),
          SimilarityMatch(il, res_catalog, res_threshold)>>

\* The positions of the catalog values the input is a prefix of, and of
\* those that contain it
PrefixPositions ==
    {i \in 1..Len(res_catalog) :
        StartsWith(Lower(res_catalog[i]), InputLower(res_input))}

SubstringPositions ==
    {i \in 1..Len(res_catalog) :
        Contains(Lower(res_catalog[i]), InputLower(res_input))}

---------------------------------------------------------------------------
(* check_schedule_conflicts exercised: one call against a store.           *)

\* Longest list of avoid blocks, longest enumerated list of fetched
\* classes, and the length of the long fetched lists
MaxBlocks == 2

MaxDocs == 2

BulkLen == 52

MWF == <<"Monday", "Wednesday", "Friday">>

TTh == <<"Tuesday", "Thursday">>

\* An avoid block given as an object with all three keys
Block(days, start_time, end_time) ==
    [is_dict |-> TRUE,
     items |-> [days |-> days, start_time |-> start_time, end_time |-> end_time]]

\* MWF 10:00 AM - 11:15 AM (600-675)
BlockMWF == Block(MWF, <<"1","0",":","0","0"," ","A","M">>, <<"1","1",":","1","5"," ","A","M">>)

\* TTh 9:00 - 10:15 in 24-hour form (540-615)
BlockTTh == Block(TTh, <<"9",":","0","0">>, <<"1","0",":","1","5">>)

\* Monday 12:05 AM - 1 AM (5-60): the buffer reaches before midnight
BlockNight == Block(<<"Monday">>, <<"1","2",":","0","5"," ","A","M">>, <<"1"," ","A","M">>)

\* Out-of-range times, and an end before the start
BlockLate == Block(TTh, <<"2","5",":","0","0">>, <<"2","6",":","0","0">>)

BlockReversed == Block(<<"Monday">>, <<"1","1",":","0","0"," ","A","M">>, <<"1","0",":","0","0"," ","A","M">>)

GoodBlocks == {BlockMWF, BlockTTh, BlockNight}

\* What else a caller may put in existing_classes: a value that is not an
\* object, an object without the keys, with no days, without or with an
\* empty start_time, with a text that is no time
OtherBlocks ==
    {[is_dict |-> FALSE, items |-> [value |-> "MWF 10-11"]],
     [is_dict |-> TRUE, items |-> [name |-> "CS 121"]],
     Block(<<>>, <<"1","0",":","0","0"," ","A","M">>, <<"1","1",":","1","5"," ","A","M">>),
     [is_dict |-> TRUE, items |-> [days |-> MWF, end_time |-> <<"1","1",":","1","5"," ","A","M">>]],
     Block(MWF, <<"1","0",":","0","0"," ","A","M">>, <<>>),
     Block(MWF, <<"n","o","o","n">>, <<"1"," ","P","M">>),
     Block(MWF, <<"1","0",":","0","0"," ","A","M">>, <<"1","1",":","x","x">>),
     BlockLate,
     BlockReversed}

\* A class document with a meeting pattern
Doc(class_number, days, start_mins, end_mins) ==
    [classNumber |-> class_number,
     meetingDays |-> days,
     meetingStartTimeInMinutes |-> start_mins,
     meetingEndTimeInMinutes |-> end_mins]

\* Classes the store may return: asynchronous ones (no days and no times, no
\* meeting fields at all, days without times, times without days) and
\* classes that end or start exactly at, or reach into, the widened blocks
DocPool ==
    {Doc("1001", <<>>, 0, 0),
     [classNumber |-> "1002"],
     Doc("1003", MWF, 540, 585),
     Doc("1004", MWF, 690, 740),
     Doc("1005", MWF, 660, 710),
     Doc("1006", TTh, 500, 540),
     Doc("1007", MWF, 0, 0),
     Doc("1008", <<>>, 600, 650)}

Buffers == {0, 15, 30}

PageSizes == {0 - 1, 0, 1, 2, 20, 50, 60}

TermPool ==
    {<<"1","2","6","3">>, <<"1","2","6","9">>, <<"1","2","6">>, <<"1","2","a","3">>, <<"2","2","6","3">>, <<"1","2","6","4">>, <<>>}

\* The sequences over S of length lo to hi
SeqsOf(S, lo, hi) == UNION {[1..n -> S] : n \in lo..hi}

\* Long fetched lists: two classes repeated in turn
BulkHits ==
    {[i \in 1..BulkLen |-> pair[((i - 1) % 2) + 1]] : pair \in [1..2 -> DocPool]}

BaseReq ==
    [term |-> <<"1","2","6","3">>,
     existing_classes |-> <<BlockTTh, BlockMWF>>,
     subject |-> None,
     academic_level |-> None,
     instruction_mode |-> None,
     min_credits |-> None,
     max_credits |-> None,
     has_open_seats |-> TRUE,
     buffer_minutes |-> 15,
     results_per_page |-> 20]

BaseStore ==
    [subjects |-> <<<<"C","S">>, <<"M","A","T","H">>, <<"B","I","O","L">>>>,
     hits |-> <<Doc("1005", MWF, 660, 710), Doc("1001", <<>>, 0, 0)>>,
     catalog_fails |-> FALSE,
     search_fails |-> FALSE]

\* Calls that vary the avoid blocks and the buffer, with no or one fetched
\* class
FilterCalls ==
    {[req |-> [BaseReq EXCEPT !.existing_classes = b, !.buffer_minutes = m],
      store |-> [BaseStore EXCEPT !.hits = h]] :
        b \in SeqsOf(GoodBlocks \cup {BlockLate, BlockReversed}, 1, MaxBlocks),
        m \in Buffers,
        h \in {<<>>} \cup {<<d>> : d \in DocPool}}

\* Calls that vary the term and the well- and ill-formed avoid blocks
ValidationCalls ==
    {[req |-> [BaseReq EXCEPT !.term = t, !.existing_classes = b],
      store |-> BaseStore] :
        t \in TermPool,
        b \in SeqsOf(GoodBlocks \cup OtherBlocks, 0, MaxBlocks)}

\* Calls that vary the page size and the fetched classes
PageCalls ==
    {[req |-> [BaseReq EXCEPT !.results_per_page = n],
      store |-> [BaseStore EXCEPT !.hits = h]] :
        n \in PageSizes,
        h \in SeqsOf(DocPool, 0, MaxDocs) \cup BulkHits}

\* Calls that vary the subject, the other filters and the store's failures
SubjectCalls ==
    {[req |-> [BaseReq EXCEPT !.subject = sub, !.academic_level = lvl,
                              !.has_open_seats = open, !.min_credits = cr],
      store |-> [BaseStore EXCEPT !.catalog_fails = cf, !.search_fails = sf]] :
        sub \in {None, Some(<<>>), Some(<<"c","s">>), Some(<<"c","o","m","p","u","t","e","r"," ","s","c","i","e","n","c","e">>),
                 Some(<<"x","y","z","1","2","3">>)},
        lvl \in {None, Some("UGRD")},
        open \in BOOLEAN,
        cr \in {None, Some(0), Some(3)},
        cf \in BOOLEAN,
        sf \in BOOLEAN}

ConflictCalls == FilterCalls \cup ValidationCalls \cup PageCalls \cup SubjectCalls

ConflictInit ==
    /\ TimeIdle
    /\ ResolverIdle
    /\ pc = "call"
    /\ \E c \in ConflictCalls : req = c.req /\ store = c.store
    /\ resp = None
    /\ calls = <<>>
    /\ kept = <<>>

\* One call of the tool
CheckScheduleConflicts ==
    /\ pc = "call"
    /\ LET out == check_schedule_conflicts(req, store)
       IN  /\ resp' = Some(out.response)
           /\ calls' = out.calls
           /\ kept' = out.non_conflicting
    /\ pc' = "returned"
    /\ UNCHANGED <<req, store, timeVars, resolverVars>>

ConflictNext == CheckScheduleConflicts

SpecConflict == ConflictInit /\ [][ConflictNext]_vars

---------------------------------------------------------------------------
(* Claims about the conflict filter.                                       *)

\* The call returned a class list
Succeeded == pc = "returned" /\ "classes" \in DOMAIN resp[1]

\* The call returned an error
Failed == pc = "returned" /\ "error" \in DOMAIN resp[1]

\* The minutes of avoid block i of the request, as time_to_minutes reads them
BlockStart(i) == time_to_minutes(req.existing_classes[i].items.start_time)[1]

BlockEnd(i) == time_to_minutes(req.existing_classes[i].items.end_time)[1]

BlockDays(i) ==
    LET days == req.existing_classes[i].items.days
    IN  {days[k] : k \in 1..Len(days)}

DocDays(doc) ==
    IF "meetingDays" \in DOMAIN doc
    THEN {doc.meetingDays[k] : k \in 1..Len(doc.meetingDays)}
    ELSE {}

DocStart(doc) ==
    IF "meetingStartTimeInMinutes" \in DOMAIN doc THEN doc.meetingStartTimeInMinutes ELSE 0

DocEnd(doc) ==
    IF "meetingEndTimeInMinutes" \in DOMAIN doc THEN doc.meetingEndTimeInMinutes ELSE 0

\* Non-empty meeting days and not start = end = 0
HasSchedule(doc) == DocDays(doc) # {} /\ ~(DocStart(doc) = 0 /\ DocEnd(doc) = 0)

\* Some avoid block of the request shares a day with doc and overlaps it
\* once widened by buffer on both sides
OverlapsSomeBlock(doc, buffer) ==
    \E i \in 1..Len(req.existing_classes) :
        /\ DocDays(doc) \cap BlockDays(i) # {}
        /\ DocStart(doc) < BlockEnd(i) + buffer
        /\ DocEnd(doc) > BlockStart(i) - buffer

\* doc is among the classes the filter retained
Retained(doc) == \E j \in 1..Len(kept) : kept[j] = doc

\* C2: when check_schedule_conflicts returns a class list, a fetched class
\* with a schedule is left out of the retained classes if and only if some
\* avoid block shares a day with it, starts (less the buffer) before the
\* class ends and ends (plus the buffer) after the class starts; a class
\* that only touches a widened block is retained.
C2_ExcludedIffOverlap ==
    Succeeded =>
        \A n \in 1..Len(store.hits) :
            HasSchedule(store.hits[n]) =>
                (~Retained(store.hits[n])
                    <=> OverlapsSomeBlock(store.hits[n], req.buffer_minutes))

\* Two avoid blocks and a buffer of 15: the class ending at 585 touches the
\* MWF block widened to 585-690 and is retained, the class at 660-710 is
\* excluded by the second block alone
C2_Witness ==
    /\ Succeeded
    /\ req.existing_classes = <<BlockTTh, BlockMWF>>
    /\ req.buffer_minutes = 15
    /\ store.hits = <<Doc("1003", MWF, 540, 585), Doc("1005", MWF, 660, 710)>>
    /\ kept = <<Doc("1003", MWF, 540, 585)>>

\* C3: when check_schedule_conflicts returns a class list, every fetched
\* class without meeting days, or with start and end both 0, is among the
\* retained classes, whatever the avoid blocks and the buffer.
C3_NoScheduleRetained ==
    Succeeded =>
        \A n \in 1..Len(store.hits) :
            ~HasSchedule(store.hits[n]) => Retained(store.hits[n])

\* A class with meeting days but no times, against a Monday block whose
\* widened interval starts before minute 0
C3_Witness ==
    /\ Succeeded
    /\ \E i \in 1..Len(req.existing_classes) : req.existing_classes[i] = BlockNight
    /\ req.buffer_minutes = 15
    /\ Retained(Doc("1007", MWF, 0, 0))

\* C4: every class retained with the request's buffer is also retained by
\* the same call made with any smaller buffer.
C4_BufferMonotone ==
    Succeeded =>
        \A b1 \in Buffers :
            b1 <= req.buffer_minutes =>
                LET narrower == check_schedule_conflicts(
                                    [req EXCEPT !.buffer_minutes = b1], store).non_conflicting
                IN  \A j \in 1..Len(kept) :
                        \E k \in 1..Len(narrower) : narrower[k] = kept[j]

\* The class ending at 585 is retained with buffer 15 and lost with buffer 30
C4_Witness ==
    /\ Succeeded
    /\ req.existing_classes = <<BlockMWF>>
    /\ req.buffer_minutes = 30
    /\ store.hits = <<Doc("1003", MWF, 540, 585)>>
    /\ kept = <<>>
    /\ check_schedule_conflicts([req EXCEPT !.buffer_minutes = 15], store).non_conflicting
          = store.hits

\* The fetched classes that have no schedule or overlap no avoid block, in
\* fetched order
FullNonConflicting ==
    SelectSeq(store.hits,
              LAMBDA doc : ~HasSchedule(doc) \/ ~OverlapsSomeBlock(doc, req.buffer_minutes))

\* C5: when check_schedule_conflicts returns a class list, total_results is
\* the number of all fetched classes that do not conflict, the returned
\* classes are the first ones of them in fetched order, and for a page size
\* that is not negative there are min(results_per_page, 50) of them, or all
\* if there are fewer.
C5_OrderAndCount ==
    Succeeded =>
        LET full    == FullNonConflicting
            classes == resp[1].classes
            limit   == IF req.results_per_page < 50 THEN req.results_per_page ELSE 50
        IN  /\ resp[1].total_results = Len(full)
            /\ Len(classes) <= Len(full)
            /\ \A i \in 1..Len(classes) : classes[i] = format_class_summary(full[i])
            /\ req.results_per_page >= 0 =>
                   Len(classes) = (IF Len(full) < limit THEN Len(full) ELSE limit)

\* More than 50 classes do not conflict and 60 are asked for: 50 are listed
C5_Witness ==
    /\ Succeeded
    /\ req.results_per_page = 60
    /\ resp[1].total_results > 50
    /\ Len(resp[1].classes) = 50
    /\ resp[1].classes[1] # resp[1].classes[2]

\* A time text that TimeCodec does not parse: no value, or one outside a day
TimeTextFails(text) ==
    \/ time_to_minutes(text) = None
    \/ time_to_minutes(text)[1] \notin DayMinutes

\* not an object, days missing or empty, start_time or end_time missing or
\* unparseable
Malformed(block) ==
    \/ ~block.is_dict
    \/ Get(block.items, "days", <<>>) = <<>>
    \/ Get(block.items, "start_time", <<>>) = <<>>
    \/ Get(block.items, "end_time", <<>>) = <<>>
    \/ TimeTextFails(block.items.start_time)
    \/ TimeTextFails(block.items.end_time)

\* C6: a call with a valid term and a malformed avoid block returns an error
\* that names the position of the first malformed block, and no class list.
C6_MalformedBlockRejected ==
    (/\ pc = "returned"
     /\ validate_term(req.term)[1]
     /\ \E i \in 1..Len(req.existing_classes) : Malformed(req.existing_classes[i]))
        => /\ Failed
           /\ "i" \in DOMAIN resp[1].error
           /\ Malformed(req.existing_classes[resp[1].error.i + 1])
           /\ \A k \in 1..resp[1].error.i : ~Malformed(req.existing_classes[k])

---------------------------------------------------------------------------
(* fuzzy_match_value exercised with thresholds from 0 to 1.                *)

\* Thresholds 0, 0.5, 0.6, 0.75 and 1
Thresholds ==
    {[num |-> 0, den |-> 1], [num |-> 1, den |-> 2], [num |-> 6, den |-> 10],
     [num |-> 3, den |-> 4], [num |-> 1, den |-> 1]}

\* Catalog values that share all, some or none of the letters of the inputs
SimilarityCatalogPool ==
    {<<"M","A","T","H">>,
     <<"H","T","A","M">>,
     <<"T","H","O","M">>,
     <<"M","O","T">>,
     <<"C","S">>,
     <<"X","q">>,
     <<>>}

\* Inputs that no catalog value equals, starts with or contains, and two
\* that an earlier strategy resolves
SimilarityInputPool ==
    {<<"m","o","t","h">>,
     <<"M","o"," ","T","h">>,
     <<"z","q">>,
     <<"t","a","m">>,
     <<"c","s">>}

SimilarityCatalogs ==
    UNION {{c \in [1..n -> SimilarityCatalogPool] : \A i, j \in 1..n : i # j => c[i] # c[j]} :
           n \in 0..MaxCatalog}

ThresholdInit ==
    /\ TimeIdle
    /\ ConflictIdle
    /\ pc = "resolve"
    /\ res_input \in SimilarityInputPool
    /\ res_catalog \in SimilarityCatalogs
    /\ res_threshold \in Thresholds
    /\ res_result = None

SpecThreshold == ThresholdInit /\ [][ResolverNext]_vars

\* Strategies 1 to 5 ran and found nothing
OnlySimilarityLeft ==
    /\ pc = "resolved"
    /\ res_input # <<>>
    /\ res_catalog # <<>>
    /\ \A k \in 1..5 : StrategyResults[k] = None

\* The letters of the input without its spaces, and of catalog value i,
\* both in lower case
InputLetters == CharSet(NoSpaces(InputLower(res_input)))

ValueLetters(i) == CharSet(Lower(res_catalog[i]))

SharedCount(i) == Cardinality(InputLetters \cap ValueLetters(i))

UnionCount(i) == Cardinality(InputLetters \cup ValueLetters(i))

\* score(i) >= threshold and score(i) >= score(j), by cross-multiplication
\* (the union is never empty: the input has a letter)
ReachesThreshold(i) ==
    SharedCount(i) * res_threshold.den >= res_threshold.num * UnionCount(i)

ScoresAtLeast(i, j) ==
    SharedCount(i) * UnionCount(j) >= SharedCount(j) * UnionCount(i)

\* The first position of the highest score among the positions in among
BestPosition(among) ==
    CHOOSE i \in among :
        /\ \A j \in among : ScoresAtLeast(i, j)
        /\ \A j \in among : (j < i) => ~ScoresAtLeast(j, i)

\* C11, as stated: when strategies 1-5 find nothing, the result is the
\* catalog value with the highest score among those whose score reaches the
\* threshold, the first of them on a tie, and no value exactly when no
\* score reaches the threshold.
C11_BestAboveThreshold ==
    OnlySimilarityLeft =>
        LET among == {i \in 1..Len(res_catalog) : ReachesThreshold(i)}
        IN  IF among = {} THEN res_result = None
            ELSE res_result = Some(res_catalog[BestPosition(among)])

\* C11, amended: when strategies 1-5 find nothing, the result is the
\* catalog value with the highest score among those that share a letter
\* with the input and whose score reaches the threshold, the first of them
\* on a tie, and no value exactly when there is none.
C11_BestPositiveAboveThreshold ==
    OnlySimilarityLeft =>
        LET among == {i \in 1..Len(res_catalog) :
                         SharedCount(i) > 0 /\ ReachesThreshold(i)}
        IN  IF among = {} THEN res_result = None
            ELSE res_result = Some(res_catalog[BestPosition(among)])

\* "moth" against CS (0), HTAM and MATH (0.6 each) at threshold 0.6: the
\* first of the two equal scores is returned
C11_Witness ==
    /\ OnlySimilarityLeft
    /\ res_input = <<"m","o","t","h">>
    /\ res_catalog = <<<<"C","S">>, <<"H","T","A","M">>, <<"M","A","T","H">>>>
    /\ res_threshold = [num |-> 6, den |-> 10]
    /\ res_result = Some(<<"H","T","A","M">>)

---------------------------------------------------------------------------
(* Claims about what the resolver returns.                                 *)

\* C12: every value fuzzy_match_value returns is an element of the catalog
\* it was given, character for character, and the call leaves the catalog
\* as it was.
C12_ResultFromCatalog ==
    /\ [](pc = "resolved" /\ res_result # None
            => \E i \in 1..Len(res_catalog) : res_catalog[i] = res_result[1])
    /\ [][res_catalog' = res_catalog]_vars

\* "computer science" is in the abbreviation table with the code "CS"; the
\* catalog holds "cs" and "COMPS" but not "CS", and the value returned is
\* one of the catalog's
C12_Witness ==
    /\ pc = "resolved"
    /\ res_input = <<"c","o","m","p","u","t","e","r"," ","s","c","i","e","n","c","e">>
    /\ res_catalog = <<<<"c","s">>, <<"C","O","M","P","S">>>>
    /\ MappingFor(InputLower(res_input)) = Some(<<"C","S">>)
    /\ res_result # None
    /\ res_result # Some(<<"C","S">>)

---------------------------------------------------------------------------
(* validate_and_match_subject exercised: one call against a catalog.       *)

\* The length of the long catalog
LongLen == 14

\* Subject codes as the store may hold them
SubjectPool ==
    {<<"C","S">>, <<"c","s">>, <<"C","h","e","m">>, <<"M","A","T","H">>, <<"B","I","O","L">>, <<" ","C","S">>}

\* A catalog with more than ten codes that start with C: CA, CB, ... with
\* every seventh code starting with M
LongSubjects ==
    [i \in 1..LongLen |->
        IF i % 7 = 0 THEN <<"M", UpperChars[i]>> ELSE <<"C", UpperChars[i]>>]

SubjectCatalogs ==
    {LongSubjects}
    \cup UNION {{c \in [1..n -> SubjectPool] : \A i, j \in 1..n : i # j => c[i] # c[j]} :
                n \in 0..MaxCatalog}

\* Subjects a caller may give
SubjectInputPool ==
    {<<"c","q">>, <<"C","q">>, <<"q">>, <<"m","q">>, <<" ","c","q">>, <<"c","s">>, <<"b","i","o">>, <<>>}

SubjectInit ==
    /\ TimeIdle
    /\ ResolverIdle
    /\ pc = "validate"
    /\ \E sub \in SubjectInputPool : req = [term |-> BaseReq.term, subject |-> sub]
    /\ \E c \in SubjectCatalogs, cf \in BOOLEAN :
           store = [subjects |-> c, hits |-> <<>>, catalog_fails |-> cf, search_fails |-> FALSE]
    /\ resp = None
    /\ calls = <<>>
    /\ kept = <<>>

\* validate_and_match_subject(client, index, subject)
ValidateAndMatchSubject ==
    /\ pc = "validate"
    /\ LET out == validate_and_match_subject(store, get_index_for_term(req.term), req.subject)
       IN  /\ resp' = Some([raised |-> out.raised, matched |-> out.matched, error |-> out.error])
           /\ calls' = out.calls
    /\ pc' = "validated"
    /\ UNCHANGED <<req, store, kept, timeVars, resolverVars>>

SubjectNext == ValidateAndMatchSubject

SpecSubject == SubjectInit /\ [][SubjectNext]_vars

\* The catalog values whose first character is the subject's first
\* character, compared without regard to case
SameFirstLetter ==
    SelectSeq(store.subjects,
              LAMBDA v : v # <<>> /\ LowerChar(v[1]) = LowerChar(req.subject[1]))

\* C13: when the subject is given and no strategy matches it,
\* validate_and_match_subject returns no value, with the first (at most 10)
\* catalog values, in catalog order, whose first character equals the
\* subject's first character compared case-insensitively as suggestions.
C13_SuggestionsByFirstLetter ==
    (/\ pc = "validated"
     /\ ~resp[1].raised
     /\ req.subject # <<>>
     /\ fuzzy_match_value(req.subject, store.subjects, DefaultThreshold) = None)
        => /\ resp[1].matched = None
           /\ resp[1].error # None
           /\ LET expected == SubSeq(SameFirstLetter, 1,
                                     IF Len(SameFirstLetter) < 10 THEN Len(SameFirstLetter) ELSE 10)
              IN  IF expected = <<>>
                  THEN "suggestions" \notin DOMAIN resp[1].error[1]
                  ELSE /\ "suggestions" \in DOMAIN resp[1].error[1]
                       /\ resp[1].error[1].suggestions = expected

---------------------------------------------------------------------------
(* build_search_query: app.py *)

\* The truthiness of an Optional argument held as one string, as a number
\* is not: given and not empty
GivenText(arg) == arg # None /\ arg[1] # ""

\* str.lstrip(): leading whitespace removed
LStrip(s) ==
    LET keep == {i \in 1..Len(s) : ~IsSpace(s[i])}
    IN  IF keep = {} THEN <<>>
        ELSE SubSeq(s, CHOOSE i \in keep : \A j \in keep : i <= j, Len(s))

\* str.rjust(width): spaces added on the left up to width
RJust(s, width) ==
    IF Len(s) >= width THEN s
    ELSE [i \in 1..(width - Len(s)) |-> " "] \o s

\* {"term": {field: value}}
TermClause(field, value) == [term |-> [field |-> field, value |-> value]]

\* {"range": {field: bounds}}, bounds a record of gt, gte, lt, lte
RangeClause(field, bounds) == [range |-> [field |-> field, bounds |-> bounds]]

\* {"wildcard": {field: pattern}}
WildcardClause(field, pattern) == [wildcard |-> [field |-> field, value |-> pattern]]

\* {"match_all": {}}
MatchAll == [match_all |-> TRUE]

\* "Full-text search on title and description"
QueryClauses(query) ==
    IF GivenText(query)
    THEN <<[multi_match |-> [query |-> query[1],
                             fields |-> <<"courseTitle^2", "description", "subject">>,
                             type |-> "best_fields",
                             fuzziness |-> "AUTO"]]>>
    ELSE <<>>

\* An exact-match filter on a keyword field: "if value: term clause"
KeywordClauses(field, value) ==
    IF GivenText(value) THEN <<TermClause(field, value[1])>> ELSE <<>>

\* A variant that pads the catalog number as given, without strip()
PaddedCatalogNumber_NoStrip(catalog_number) == RJust(catalog_number, 4)

\* "Exact match - pad with space like the data has"
PaddedCatalogNumber(catalog_number) == RJust(Strip(catalog_number), 4)

\* "Wildcard query - need to handle the leading space in catalog numbers"
CatalogWildcard(catalog_number) == <<"*">> \o LStrip(catalog_number)

\* The catalog number filter
CatalogNumberClauses(catalog_number) ==
    IF Given(catalog_number)
    THEN IF \E i \in 1..Len(catalog_number[1]) : catalog_number[1][i] \in {"*", "?"}
         THEN <<WildcardClause("catalogNumber", CatalogWildcard(catalog_number[1]))>>
         ELSE <<TermClause("catalogNumber", PaddedCatalogNumber(catalog_number[1]))>>
    ELSE <<>>

\* A variant of the days filter with one clause that names all the days
DaysClauses_AnyOf(days) ==
    IF Given(days) THEN <<[terms |-> [field |-> "meetingDays", value |-> days[1]]]>> ELSE <<>>

\* "Days of week": one term clause per day
DaysClauses(days) ==
    IF Given(days)
    THEN [i \in 1..Len(days[1]) |-> TermClause("meetingDays", days[1][i])]
    ELSE <<>>

\* A variant whose morning starts at minute 0
MeetingTimeClauses_MorningFromZero(meeting_time) ==
    IF ~GivenText(meeting_time) THEN <<>>
    ELSE IF meeting_time[1] = "morning"
    THEN <<RangeClause("meetingStartTimeInMinutes", [gte |-> 0, lt |-> 720])>>
    ELSE IF meeting_time[1] = "afternoon"
    THEN <<RangeClause("meetingStartTimeInMinutes", [gte |-> 720, lt |-> 1020])>>
    ELSE IF meeting_time[1] = "evening"
    THEN <<RangeClause("meetingStartTimeInMinutes", [gte |-> 1020])>>
    ELSE <<>>

\* "Meeting time (morning/afternoon/evening)"
MeetingTimeClauses(meeting_time) ==
    IF ~GivenText(meeting_time) THEN <<>>
    ELSE IF meeting_time[1] = "morning"
    THEN <<RangeClause("meetingStartTimeInMinutes", [gt |-> 0, lt |-> 720])>>
    ELSE IF meeting_time[1] = "afternoon"
    THEN <<RangeClause("meetingStartTimeInMinutes", [gte |-> 720, lt |-> 1020])>>
    ELSE IF meeting_time[1] = "evening"
    THEN <<RangeClause("meetingStartTimeInMinutes", [gte |-> 1020])>>
    ELSE <<>>

\* "Specific time range": the earliest start
StartTimeClauses(start_time) ==
    IF Given(start_time) /\ time_to_minutes(start_time[1]) # None
    THEN <<RangeClause("meetingStartTimeInMinutes", [gte |-> time_to_minutes(start_time[1])[1]])>>
    ELSE <<>>

\* "Specific time range": the latest end
EndTimeClauses(end_time) ==
    IF Given(end_time) /\ time_to_minutes(end_time[1]) # None
    THEN <<RangeClause("meetingEndTimeInMinutes", [lte |-> time_to_minutes(end_time[1])[1]])>>
    ELSE <<>>

\* A variant of the credits filter that tests the numbers for truth
CreditClauses_Truthy(min_credits, max_credits) ==
    (IF min_credits # None /\ min_credits[1] # 0
     THEN <<RangeClause("courseCreditMin", [gte |-> min_credits[1]])>> ELSE <<>>)
    \o (IF max_credits # None /\ max_credits[1] # 0
        THEN <<RangeClause("courseCreditMax", [lte |-> max_credits[1]])>> ELSE <<>>)

\* "Credits": is not None
CreditClauses(min_credits, max_credits) ==
    (IF min_credits # None
     THEN <<RangeClause("courseCreditMin", [gte |-> min_credits[1]])>> ELSE <<>>)
    \o (IF max_credits # None
        THEN <<RangeClause("courseCreditMax", [lte |-> max_credits[1]])>> ELSE <<>>)

\* "Open seats": given and True
OpenSeatsClauses(has_open_seats) ==
    IF has_open_seats # None /\ has_open_seats[1]
    THEN <<RangeClause("availableSeats", [gt |-> 0])>>
    ELSE <<>>

\* "Instructor name (fuzzy match on flat professor fields)"
InstructorClauses(instructor_name) ==
    IF Given(instructor_name)
    THEN <<[bool |->
              [should |-> <<WildcardClause("professorFirstName",
                                           <<"*">> \o instructor_name[1] \o <<"*">>),
                            WildcardClause("professorLastName",
                                           <<"*">> \o instructor_name[1] \o <<"*">>)>>,
               minimum_should_match |-> 1]]>>
    ELSE <<>>

\* must_clauses, in the order they are appended
MustClauses(f) == QueryClauses(f.query) \o InstructorClauses(f.instructor_name)

\* filter_clauses, in the order they are appended
FilterClauses(f) ==
    (IF Given(f.subject) THEN <<TermClause("subject", f.subject[1])>> ELSE <<>>)
    \o CatalogNumberClauses(f.catalog_number)
    \o KeywordClauses("academicCareer", f.academic_level)
    \o KeywordClauses("instructionModeDescription", f.instruction_mode)
    \o KeywordClauses("location", f.location)
    \o DaysClauses(f.days)
    \o MeetingTimeClauses(f.meeting_time)
    \o StartTimeClauses(f.start_time)
    \o EndTimeClauses(f.end_time)
    \o CreditClauses(f.min_credits, f.max_credits)
    \o KeywordClauses("sessionCodeDescription", f.session)
    \o OpenSeatsClauses(f.has_open_seats)
    \o KeywordClauses("courseAttributeValues", f.course_attribute)
    \o KeywordClauses("requirementDesignation", f.requirement_designation)

\* A variant that leaves an empty must list as it is
FinalQuery_KeepEmptyMust(must_clauses, filter_clauses) ==
    [bool |-> [must |-> must_clauses, filter |-> filter_clauses]]

\* A variant that makes the filter clauses optional
FinalQuery_ShouldFilter(must_clauses, filter_clauses) ==
    IF must_clauses # <<>> \/ filter_clauses # <<>>
    THEN [bool |-> [must |-> IF must_clauses # <<>> THEN must_clauses ELSE <<MatchAll>>,
                    should |-> filter_clauses]]
    ELSE MatchAll

\* "Build final query"
FinalQuery(must_clauses, filter_clauses) ==
    IF must_clauses # <<>> \/ filter_clauses # <<>>
    THEN [bool |-> [must |-> IF must_clauses # <<>> THEN must_clauses ELSE <<MatchAll>>,
                    filter |-> filter_clauses]]
    ELSE MatchAll

\* build_search_query(query, subject, ..., instructor_name), f the record of
\* its arguments
build_search_query(f) == FinalQuery(MustClauses(f), FilterClauses(f))

\* compare_sections: "Pad catalog number"
padded_catalog(catalog_number) == RJust(Strip(catalog_number), 4)

---------------------------------------------------------------------------
(* build_search_query exercised: one call with a set of filters.           *)

\* The parameters of build_search_query
FilterNames ==
    {"query", "subject", "catalog_number", "academic_level", "instruction_mode",
     "location", "days", "meeting_time", "start_time", "end_time", "min_credits",
     "max_credits", "session", "has_open_seats", "course_attribute",
     "requirement_designation", "instructor_name"}

\* Every filter given, with a value that compiles to a clause
AllFilters ==
    [query |-> Some("data science"),
     subject |-> Some(<<"C","S">>),
     catalog_number |-> Some(<<"1","2","1">>),
     academic_level |-> Some("UGRD"),
     instruction_mode |-> Some("Online"),
     location |-> Some("Boise Campus"),
     days |-> Some(<<"Monday", "Wednesday">>),
     meeting_time |-> Some("morning"),
     start_time |-> Some(<<"9",":","0","0"," ","A","M">>),
     end_time |-> Some(<<"1","7",":","0","0">>),
     min_credits |-> Some(3),
     max_credits |-> Some(4),
     session |-> Some("Regular Session"),
     has_open_seats |-> Some(TRUE),
     course_attribute |-> Some("Zero Cost Course Materials"),
     requirement_designation |-> Some("HON"),
     instructor_name |-> Some(<<"S","m","i","t","h">>)]

\* Other values a caller may give for a filter
OtherValues ==
    [query |-> {Some("")},
     subject |-> {Some(<<>>), Some(<<"M","A","T","H">>)},
     catalog_number |-> {Some(<<"3","*">>), Some(<<" ","3","*">>), Some(<<"1","?","1">>), Some(<<" ","1","2","1"," ">>), Some(<<"1","2","3","4">>), Some(<<"1","2","3","4","5">>), Some(<<"7">>), Some(<<" "," ">>), Some(<<>>)},
     academic_level |-> {Some("GRAD")},
     instruction_mode |-> {Some("")},
     location |-> {Some("")},
     days |-> {Some(<<>>), Some(<<"Friday">>), Some(<<"Tuesday", "Thursday", "Tuesday">>)},
     meeting_time |-> {Some("afternoon"), Some("evening"), Some("night"), Some("")},
     start_time |-> {Some(<<"n","o","o","n">>), Some(<<"1","3",":","3","0">>), Some(<<>>)},
     end_time |-> {Some(<<"5"," ","P","M">>), Some(<<"l","a","t","e","r">>), Some(<<>>)},
     min_credits |-> {Some(0), Some(1)},
     max_credits |-> {Some(0), Some(6)},
     session |-> {Some("")},
     has_open_seats |-> {Some(FALSE)},
     course_attribute |-> {Some("")},
     requirement_designation |-> {Some("")},
     instructor_name |-> {Some(<<>>), Some(<<"a","n">>)}]

\* The filters of AllFilters named in given, the others absent
Only(given) == [n \in FilterNames |-> IF n \in given THEN AllFilters[n] ELSE None]

\* At most two filters given or at most two absent; every combination of
\* eight of the filters; one or two filters with another value, the others all
\* absent or all given
FilterSets ==
    {Only(g) : g \in {x \in SUBSET FilterNames : Cardinality(x) <= 2}}
    \cup {Only(FilterNames \ g) : g \in {x \in SUBSET FilterNames : Cardinality(x) <= 2}}
    \cup {Only(g) : g \in SUBSET {"query", "subject", "catalog_number", "days", "start_time",
                                   "min_credits", "has_open_seats", "instructor_name"}}
    \cup UNION {{[base EXCEPT ![n] = v] : v \in OtherValues[n], base \in {Only({}), AllFilters}} :
                n \in FilterNames}
    \cup UNION {{[AllFilters EXCEPT !["catalog_number"] = c, ![n] = v] :
                    c \in OtherValues["catalog_number"], v \in OtherValues[n]} :
                n \in {"days", "start_time", "min_credits", "has_open_seats"}}

QueryInit ==
    /\ TimeIdle
    /\ ResolverIdle
    /\ pc = "build"
    /\ req \in FilterSets
    /\ store = None
    /\ resp = None
    /\ calls = <<>>
    /\ kept = <<>>

\* search_query = build_search_query(...)
BuildSearchQuery ==
    /\ pc = "build"
    /\ resp' = Some(build_search_query(req))
    /\ pc' = "built"
    /\ UNCHANGED <<req, store, calls, kept, timeVars, resolverVars>>

QueryNext == BuildSearchQuery

SpecQuery == QueryInit /\ [][QueryNext]_vars

---------------------------------------------------------------------------
(* The claims about build_search_query.  A compiled query is read as the   *)
(* search engine reads it: the clauses of must and filter must all match,  *)
(* a should list needs minimum_should_match of its clauses.                *)

Built == pc = "built" /\ resp # None

\* The compiled query of the call
Compiled == resp[1]

\* A filter is supplied when the caller gave a value for it: a text or a
\* list that is not empty, a number, or has_open_seats = true
Supplied(f, n) ==
    IF n \in {"min_credits", "max_credits"} THEN f[n] # None
    ELSE IF n = "has_open_seats" THEN f[n] = Some(TRUE)
    ELSE IF n \in {"subject", "catalog_number", "start_time", "end_time", "instructor_name", "days"}
    THEN f[n] # None /\ f[n][1] # <<>>
    ELSE f[n] # None /\ f[n][1] # ""

\* The clauses of a compiled query, the stand-in match_all left out
AllClauses(q) ==
    IF "bool" \notin DOMAIN q THEN <<>>
    ELSE (IF q.bool.must = <<MatchAll>> THEN <<>> ELSE q.bool.must)
         \o (IF "filter" \in DOMAIN q.bool THEN q.bool.filter ELSE <<>>)

\* The store fields a clause is on
ClauseFields(c) ==
    IF "term" \in DOMAIN c THEN {c.term.field}
    ELSE IF "range" \in DOMAIN c THEN {c.range.field}
    ELSE IF "wildcard" \in DOMAIN c THEN {c.wildcard.field}
    ELSE IF "terms" \in DOMAIN c THEN {c.terms.field}
    ELSE IF "multi_match" \in DOMAIN c
    THEN {c.multi_match.fields[i] : i \in 1..Len(c.multi_match.fields)}
    ELSE IF "bool" \in DOMAIN c /\ "should" \in DOMAIN c.bool
    THEN {c.bool.should[i].wildcard.field : i \in 1..Len(c.bool.should)}
    ELSE {}

\* The store fields each filter is mapped to
StoreFields ==
    [query |-> {"courseTitle^2", "description", "subject"},
     subject |-> {"subject"},
     catalog_number |-> {"catalogNumber"},
     academic_level |-> {"academicCareer"},
     instruction_mode |-> {"instructionModeDescription"},
     location |-> {"location"},
     days |-> {"meetingDays"},
     meeting_time |-> {"meetingStartTimeInMinutes"},
     start_time |-> {"meetingStartTimeInMinutes"},
     end_time |-> {"meetingEndTimeInMinutes"},
     min_credits |-> {"courseCreditMin"},
     max_credits |-> {"courseCreditMax"},
     session |-> {"sessionCodeDescription"},
     has_open_seats |-> {"availableSeats"},
     course_attribute |-> {"courseAttributeValues"},
     requirement_designation |-> {"requirementDesignation"},
     instructor_name |-> {"professorFirstName", "professorLastName"}]

\* The clauses filter n compiles to when it is the only filter of f given
OwnClauses(f, n) ==
    AllClauses(build_search_query([m \in FilterNames |-> IF m = n THEN f[n] ELSE None]))

\* The clauses of a list that are not among own
Without(clauses, own) ==
    LET Other(c) == \A i \in 1..Len(own) : own[i] # c
    IN  SelectSeq(clauses, Other)

\* A wildcard pattern against a stored keyword: * is any run of
\* characters, ? is one character
RECURSIVE WildMatch(_, _)
WildMatch(pattern, text) ==
    IF pattern = <<>> THEN text = <<>>
    ELSE IF pattern[1] = "*"
    THEN \E k \in 0..Len(text) : WildMatch(Tail(pattern), SubSeq(text, k + 1, Len(text)))
    ELSE /\ text # <<>>
         /\ pattern[1] = "?" \/ pattern[1] = text[1]
         /\ WildMatch(Tail(pattern), Tail(text))

\* A number within the bounds of a range clause
InRange(n, bounds) ==
    /\ "gt" \in DOMAIN bounds => n > bounds.gt
    /\ "gte" \in DOMAIN bounds => n >= bounds.gte
    /\ "lt" \in DOMAIN bounds => n < bounds.lt
    /\ "lte" \in DOMAIN bounds => n <= bounds.lte

\* A field of a record holds the value: meetingDays is a list of days
FieldHas(doc, field, value) ==
    IF field = "meetingDays" THEN value \in doc[field] ELSE doc[field] = value

\* A record matches a clause
RECURSIVE Matches(_, _)
Matches(doc, c) ==
    IF "match_all" \in DOMAIN c THEN TRUE
    ELSE IF "term" \in DOMAIN c THEN FieldHas(doc, c.term.field, c.term.value)
    ELSE IF "terms" \in DOMAIN c
    THEN \E i \in 1..Len(c.terms.value) : FieldHas(doc, c.terms.field, c.terms.value[i])
    ELSE IF "wildcard" \in DOMAIN c THEN WildMatch(c.wildcard.value, doc[c.wildcard.field])
    ELSE IF "range" \in DOMAIN c THEN InRange(doc[c.range.field], c.range.bounds)
    ELSE IF "multi_match" \in DOMAIN c THEN c.multi_match.query \in doc.text
    ELSE LET b == c.bool
             must == IF "must" \in DOMAIN b THEN b.must ELSE <<>>
             filter == IF "filter" \in DOMAIN b THEN b.filter ELSE <<>>
             should == IF "should" \in DOMAIN b THEN b.should ELSE <<>>
             must_not == IF "must_not" \in DOMAIN b THEN <<b.must_not>> ELSE <<>>
             needed == IF "minimum_should_match" \in DOMAIN b THEN b.minimum_should_match
                       ELSE IF must = <<>> /\ filter = <<>> /\ should # <<>> THEN 1 ELSE 0
         IN  /\ \A i \in 1..Len(must) : Matches(doc, must[i])
             /\ \A i \in 1..Len(filter) : Matches(doc, filter[i])
             /\ \A i \in 1..Len(must_not) : ~Matches(doc, must_not[i])
             /\ Cardinality({i \in 1..Len(should) : Matches(doc, should[i])}) >= needed

\* A record every clause of AllFilters matches
FullDoc ==
    [text |-> {"data science"},
     subject |-> <<"C","S">>,
     catalogNumber |-> <<" ","1","2","1">>,
     academicCareer |-> "UGRD",
     instructionModeDescription |-> "Online",
     location |-> "Boise Campus",
     meetingDays |-> {"Monday", "Wednesday"},
     meetingStartTimeInMinutes |-> 600,
     meetingEndTimeInMinutes |-> 650,
     courseCreditMin |-> 3,
     courseCreditMax |-> 3,
     sessionCodeDescription |-> "Regular Session",
     availableSeats |-> 5,
     courseAttributeValues |-> "Zero Cost Course Materials",
     requirementDesignation |-> "HON",
     professorFirstName |-> <<"A","n","n">>,
     professorLastName |-> <<"S","m","i","t","h">>]

\* Records that differ from FullDoc in one field
SampleDocs ==
    {FullDoc,
     [FullDoc EXCEPT !.text = {}],
     [FullDoc EXCEPT !.subject = <<"M","A","T","H">>],
     [FullDoc EXCEPT !.catalogNumber = <<" ","3","0","1">>],
     [FullDoc EXCEPT !.catalogNumber = <<" ","1","3","0">>],
     [FullDoc EXCEPT !.catalogNumber = <<" ","2","0","3">>],
     [FullDoc EXCEPT !.catalogNumber = <<"1","2","3","4">>],
     [FullDoc EXCEPT !.catalogNumber = <<" "," "," ","7">>],
     [FullDoc EXCEPT !.catalogNumber = <<"3","0","1","0">>],
     [FullDoc EXCEPT !.academicCareer = "GRAD"],
     [FullDoc EXCEPT !.instructionModeDescription = "In Person"],
     [FullDoc EXCEPT !.location = "Online"],
     [FullDoc EXCEPT !.meetingDays = {"Monday"}],
     [FullDoc EXCEPT !.meetingDays = {"Tuesday", "Thursday"}],
     [FullDoc EXCEPT !.meetingDays = {"Monday", "Wednesday", "Friday"}],
     [FullDoc EXCEPT !.meetingStartTimeInMinutes = 480],
     [FullDoc EXCEPT !.meetingStartTimeInMinutes = 780, !.meetingEndTimeInMinutes = 830],
     [FullDoc EXCEPT !.meetingEndTimeInMinutes = 1080],
     [FullDoc EXCEPT !.courseCreditMin = 1],
     [FullDoc EXCEPT !.courseCreditMin = 0, !.courseCreditMax = 0],
     [FullDoc EXCEPT !.courseCreditMax = 6],
     [FullDoc EXCEPT !.sessionCodeDescription = "First Session"],
     [FullDoc EXCEPT !.availableSeats = 0],
     [FullDoc EXCEPT !.courseAttributeValues = "Service Learning"],
     [FullDoc EXCEPT !.requirementDesignation = "NONE"],
     [FullDoc EXCEPT !.professorLastName = <<"J","o","n","e","s">>],
     [FullDoc EXCEPT !.professorFirstName = <<"S","m","i","t","h">>, !.professorLastName = <<"J","o","n","e","s">>]}

\* C14: a call with no filter supplied returns the match-all query, which
\* every record matches; whatever the filters, the compiled query is
\* match-all or a bool query whose must list is not empty, match-all taking
\* the place of an empty must list when only filter clauses exist.
C14_NoFilterMatchesAll ==
    Built =>
        /\ (\A n \in FilterNames : ~Supplied(req, n)) =>
               /\ Compiled = MatchAll
               /\ \A doc \in SampleDocs : Matches(doc, Compiled)
        /\ \/ Compiled = MatchAll
           \/ /\ DOMAIN Compiled = {"bool"}
              /\ Compiled.bool.must # <<>>
              /\ MustClauses(req) = <<>> => Compiled.bool.must = <<MatchAll>>

\* A call with has_open_seats = false and nothing else: no filter supplied
C14_Witness ==
    /\ Built
    /\ req = [Only({}) EXCEPT !["has_open_seats"] = Some(FALSE)]
    /\ Compiled = MatchAll

\* C15: for every filter, the compiled query has clauses of that filter, on
\* the store fields it is mapped to, exactly when the filter was supplied;
\* an absent filter leaves the query as it is without it, and the clauses
\* of the other filters are the same with the filter and without it.
C15_ClauseIffSupplied ==
    Built =>
        /\ \A n \in FilterNames :
               LET own == OwnClauses(req, n)
                   without == build_search_query([req EXCEPT ![n] = None])
               IN  /\ Supplied(req, n) <=> own # <<>>
                   /\ \A i \in 1..Len(own) : ClauseFields(own[i]) \subseteq StoreFields[n]
                   /\ ~Supplied(req, n) => Compiled = without
                   /\ Without(AllClauses(Compiled), own) = AllClauses(without)
        /\ \A i \in 1..Len(AllClauses(Compiled)) :
               \E n \in FilterNames :
                   /\ Supplied(req, n)
                   /\ \E j \in 1..Len(OwnClauses(req, n)) :
                          OwnClauses(req, n)[j] = AllClauses(Compiled)[i]

\* The instructor clause: first name or last name, at least one of them
IsInstructorClause(c) ==
    /\ DOMAIN c = {"bool"}
    /\ DOMAIN c.bool = {"should", "minimum_should_match"}
    /\ c.bool.minimum_should_match = 1
    /\ Len(c.bool.should) = 2
    /\ \A i \in 1..2 : DOMAIN c.bool.should[i] = {"wildcard"}
    /\ {c.bool.should[i].wildcard.field : i \in 1..2} = {"professorFirstName", "professorLastName"}

\* C16: the compiled query is match-all or one bool query of a must list
\* and a filter list and nothing else; the must list holds the free-text
\* clause and the instructor clause (or match-all in their place), the
\* filter list holds term, range and wildcard clauses only; the only
\* alternatives are the fields of the free-text clause and the two names of
\* the instructor clause, one of which must match.  A record matches the
\* compiled query exactly when it matches every clause of every filter.
C16_AllClausesRequired ==
    Built =>
        /\ \/ Compiled = MatchAll
           \/ /\ DOMAIN Compiled = {"bool"}
              /\ DOMAIN Compiled.bool = {"must", "filter"}
              /\ \A i \in 1..Len(Compiled.bool.must) :
                     \/ Compiled.bool.must[i] = MatchAll
                     \/ DOMAIN Compiled.bool.must[i] = {"multi_match"}
                     \/ IsInstructorClause(Compiled.bool.must[i])
              /\ \A i \in 1..Len(Compiled.bool.filter) :
                     DOMAIN Compiled.bool.filter[i] \in {{"term"}, {"range"}, {"wildcard"}}
              /\ Supplied(req, "query") =>
                     \E i \in 1..Len(Compiled.bool.must) :
                         DOMAIN Compiled.bool.must[i] = {"multi_match"}
              /\ Supplied(req, "instructor_name") =>
                     \E i \in 1..Len(Compiled.bool.must) :
                         IsInstructorClause(Compiled.bool.must[i])
        /\ \A doc \in SampleDocs :
               Matches(doc, Compiled) <=>
                   \A n \in FilterNames :
                       \A i \in 1..Len(OwnClauses(req, n)) : Matches(doc, OwnClauses(req, n)[i])

\* Every filter given: the record that satisfies them all matches, the
\* records that fail one filter do not, and the instructor may match by
\* first name alone
C16_Witness ==
    /\ Built
    /\ req = AllFilters
    /\ Matches(FullDoc, Compiled)
    /\ ~Matches([FullDoc EXCEPT !.subject = <<"M","A","T","H">>], Compiled)
    /\ ~Matches([FullDoc EXCEPT !.text = {}], Compiled)
    /\ ~Matches([FullDoc EXCEPT !.professorLastName = <<"J","o","n","e","s">>], Compiled)
    /\ Matches([FullDoc EXCEPT !.professorFirstName = <<"S","m","i","t","h">>,
                               !.professorLastName = <<"J","o","n","e","s">>], Compiled)

\* The range clauses of the compiled query on a field
RangesOn(field) ==
    LET filter == IF Compiled = MatchAll THEN <<>> ELSE Compiled.bool.filter
    IN  {filter[i].range.bounds : i \in {j \in 1..Len(filter) :
             "range" \in DOMAIN filter[j] /\ filter[j].range.field = field}}

\* C17: min_credits = n compiles to the bound gte n on courseCreditMin, also
\* for n = 0, and max_credits = n to the bound lte n on courseCreditMax;
\* has_open_seats = true compiles to the bound gt 0 on availableSeats;
\* absent, and has_open_seats = false, they compile to no clause on these
\* fields.  The bounds are read as the store reads them: a record passes
\* the credits filters exactly when courseCreditMin >= min_credits and
\* courseCreditMax <= max_credits, and the seats filter when it has more
\* than 0 available seats.
C17_RangeBounds ==
    Built =>
        /\ RangesOn("courseCreditMin") =
               IF req.min_credits # None THEN {[gte |-> req.min_credits[1]]} ELSE {}
        /\ RangesOn("courseCreditMax") =
               IF req.max_credits # None THEN {[lte |-> req.max_credits[1]]} ELSE {}
        /\ RangesOn("availableSeats") =
               IF req.has_open_seats = Some(TRUE) THEN {[gt |-> 0]} ELSE {}
        /\ \A doc \in SampleDocs :
               /\ \A b \in RangesOn("courseCreditMin") :
                      InRange(doc.courseCreditMin, b) <=> doc.courseCreditMin >= req.min_credits[1]
               /\ \A b \in RangesOn("courseCreditMax") :
                      InRange(doc.courseCreditMax, b) <=> doc.courseCreditMax <= req.max_credits[1]
               /\ \A b \in RangesOn("availableSeats") :
                      InRange(doc.availableSeats, b) <=> doc.availableSeats > 0
               /\ Matches(doc, Compiled) =>
                      /\ req.min_credits # None => doc.courseCreditMin >= req.min_credits[1]
                      /\ req.max_credits # None => doc.courseCreditMax <= req.max_credits[1]
                      /\ req.has_open_seats = Some(TRUE) => doc.availableSeats > 0

\* min_credits = 0 with the other filters given: the clause gte 0 is there
C17_Witness ==
    /\ Built
    /\ req.min_credits = Some(0)
    /\ req.max_credits = Some(4)
    /\ req.has_open_seats = Some(TRUE)
    /\ RangesOn("courseCreditMin") = {[gte |-> 0]}
    /\ RangesOn("courseCreditMax") = {[lte |-> 4]}
    /\ RangesOn("availableSeats") = {[gt |-> 0]}

\* The clauses of the filter list on meetingDays, in their order
DayClauses ==
    LET filter == IF Compiled = MatchAll THEN <<>> ELSE Compiled.bool.filter
        OnDays(c) == "meetingDays" \in ClauseFields(c)
    IN  SelectSeq(filter, OnDays)

\* C18: the days filter compiles to one term clause on meetingDays per
\* supplied day, in the filter list, and to no other clause on that field;
\* a record matches the compiled query only if its meeting days contain
\* every supplied day.
C18_DaysMustIncludeAll ==
    Built =>
        /\ DayClauses =
               IF Given(req.days)
               THEN [i \in 1..Len(req.days[1]) |->
                        [term |-> [field |-> "meetingDays", value |-> req.days[1][i]]]]
               ELSE <<>>
        /\ Given(req.days) =>
               \A doc \in SampleDocs :
                   /\ Matches(doc, Compiled) =>
                          \A i \in 1..Len(req.days[1]) : req.days[1][i] \in doc.meetingDays
                   /\ (\A i \in 1..Len(DayClauses) : Matches(doc, DayClauses[i])) <=>
                          \A i \in 1..Len(req.days[1]) : req.days[1][i] \in doc.meetingDays

\* Monday and Wednesday asked for: a record that meets on Monday only does
\* not match, records that meet on both days (and on Friday too) match
C18_Witness ==
    /\ Built
    /\ req = Only({"days"})
    /\ Len(DayClauses) = 2
    /\ Matches(FullDoc, Compiled)
    /\ Matches([FullDoc EXCEPT !.meetingDays = {"Monday", "Wednesday", "Friday"}], Compiled)
    /\ ~Matches([FullDoc EXCEPT !.meetingDays = {"Monday"}], Compiled)

\* The characters of a level pattern before its final *
LevelPrefix(pattern) == Strip(SubSeq(pattern, 1, Len(pattern) - 1))

\* A level pattern: characters without * or ?, then one *
IsLevelPattern(pattern) ==
    /\ Len(pattern) >= 2
    /\ pattern[Len(pattern)] = "*"
    /\ \A i \in 1..(Len(pattern) - 1) : pattern[i] \notin {"*", "?"}
    /\ LevelPrefix(pattern) # <<>>

\* The stored catalog number, without its padding, begins with the prefix
BeginsWith(stored, prefix) ==
    LET number == LStrip(stored)
    IN  Len(number) >= Len(prefix) /\ SubSeq(number, 1, Len(prefix)) = prefix

\* The wildcard clauses of the compiled query on catalogNumber
CatalogPatterns ==
    LET filter == IF Compiled = MatchAll THEN <<>> ELSE Compiled.bool.filter
    IN  {filter[i].wildcard.value : i \in {j \in 1..Len(filter) :
             "wildcard" \in DOMAIN filter[j] /\ filter[j].wildcard.field = "catalogNumber"}}

\* C19: a level pattern such as "3*" compiles to one wildcard clause on
\* catalogNumber, and that clause matches exactly the records whose catalog
\* number, without the stored padding, begins with the characters before
\* the *: 301 matches, 130 and 203 do not.
C19_LevelPatternMatchesPrefix ==
    Built /\ Given(req.catalog_number) /\ IsLevelPattern(req.catalog_number[1]) =>
        /\ Cardinality(CatalogPatterns) = 1
        /\ \A pattern \in CatalogPatterns :
               \A doc \in SampleDocs :
                   WildMatch(pattern, doc.catalogNumber) <=>
                       BeginsWith(doc.catalogNumber, LevelPrefix(req.catalog_number[1]))

\* The values of the term clauses of the compiled query on catalogNumber
CatalogTerms ==
    LET filter == IF Compiled = MatchAll THEN <<>> ELSE Compiled.bool.filter
    IN  {filter[i].term.value : i \in {j \in 1..Len(filter) :
             "term" \in DOMAIN filter[j] /\ filter[j].term.field = "catalogNumber"}}

\* t is the text with the whitespace around it removed
IsTrimOf(t, text) ==
    /\ t = <<>> \/ (~IsSpace(t[1]) /\ ~IsSpace(t[Len(t)]))
    /\ \E lead \in 0..Len(text) :
           /\ lead + Len(t) <= Len(text)
           /\ SubSeq(text, lead + 1, lead + Len(t)) = t
           /\ \A i \in (1..lead) \cup ((lead + Len(t) + 1)..Len(text)) : IsSpace(text[i])

\* v is t with spaces added on the left up to the width 4
IsPaddedTo4(v, t) ==
    /\ Len(v) = (IF Len(t) >= 4 THEN Len(t) ELSE 4)
    /\ SubSeq(v, Len(v) - Len(t) + 1, Len(v)) = t
    /\ \A i \in 1..(Len(v) - Len(t)) : v[i] = " "

\* C20: a catalog number without * or ? compiles to one term clause on
\* catalogNumber and no wildcard clause; the value of the clause is the
\* input without the whitespace around it, padded with spaces on the left
\* to the width 4, and unchanged when it has 4 characters or more;
\* compare_sections pads the same input to the same value; padding the
\* padded value again, in either function, changes nothing.
C20_ExactCatalogNumberPadded ==
    Built /\ Given(req.catalog_number)
          /\ (\A i \in 1..Len(req.catalog_number[1]) : req.catalog_number[1][i] \notin {"*", "?"}) =>
        /\ CatalogPatterns = {}
        /\ Cardinality(CatalogTerms) = 1
        /\ \A v \in CatalogTerms :
               /\ \E n \in 0..Len(req.catalog_number[1]) :
                      LET t == SubSeq(v, Len(v) - n + 1, Len(v))
                      IN  /\ n <= Len(v)
                          /\ IsTrimOf(t, req.catalog_number[1])
                          /\ IsPaddedTo4(v, t)
                          /\ Len(t) >= 4 => v = t
               /\ v = padded_catalog(req.catalog_number[1])
               /\ PaddedCatalogNumber(v) = v
               /\ padded_catalog(v) = v

\* " 121 " is compiled to the term " 121"
C20_Witness ==
    /\ Built
    /\ req.catalog_number = Some(<<" ","1","2","1"," ">>)
    /\ CatalogTerms = {<<" ","1","2","1">>}
    /\ padded_catalog(<<" ","1","2","1"," ">>) = <<" ","1","2","1">>

\* The three names of meeting_time
MeetingTimes == {"morning", "afternoon", "evening"}

\* The clauses the query of the call would have for meeting_time = name
\* alone
MeetingTimeOf(name) == OwnClauses([req EXCEPT !.meeting_time = Some(name)], "meeting_time")

\* A class that starts at minute m passes the clauses of a meeting_time
\* filter
Passes(clauses, m) ==
    /\ clauses # <<>>
    /\ \A i \in 1..Len(clauses) :
           /\ DOMAIN clauses[i] = {"range"}
           /\ clauses[i].range.field = "meetingStartTimeInMinutes"
           /\ InRange(m, clauses[i].range.bounds)

StartsIn(name, m) == Passes(MeetingTimeOf(name), m)

\* C29: a start minute from 1 to 1439 passes exactly one of the three
\* meeting_time filters, morning from 1 to 719, afternoon from 720 to 1019,
\* evening from 1020 to 1439, and the start minute 0 passes none; a query
\* built with one of the three names has that filter's clause among its
\* filter clauses.
C29_MeetingTimesPartitionDay ==
    Built =>
        /\ LET morning == MeetingTimeOf("morning")
               afternoon == MeetingTimeOf("afternoon")
               evening == MeetingTimeOf("evening")
           IN  \A m \in DayMinutes :
                   /\ Passes(morning, m) <=> m \in 1..719
                   /\ Passes(afternoon, m) <=> m \in 720..1019
                   /\ Passes(evening, m) <=> m \in 1020..1439
                   /\ Cardinality({c \in {morning, afternoon, evening} : Passes(c, m)})
                          = IF m = 0 THEN 0 ELSE 1
        /\ \A name \in MeetingTimes :
               req.meeting_time = Some(name) =>
                   \A i \in 1..Len(MeetingTimeOf(name)) :
                       \E j \in 1..Len(Compiled.bool.filter) :
                           Compiled.bool.filter[j] = MeetingTimeOf(name)[i]

\* A query built for the afternoon: a start at 720 and one at 1019 pass, a
\* start at 719 and one at 1020 do not
C29_Witness ==
    /\ Built
    /\ req.meeting_time = Some("afternoon")
    /\ RangesOn("meetingStartTimeInMinutes") = {[gte |-> 720, lt |-> 1020]}
    /\ StartsIn("afternoon", 720)
    /\ StartsIn("afternoon", 1019)
    /\ ~StartsIn("afternoon", 719)
    /\ ~StartsIn("afternoon", 1020)

---------------------------------------------------------------------------
(* The tools that search with filters: app.py.  A store st answers a       *)
(* catalog fetch with st.subjects and a search with st.hits, or fails.     *)

\* A variant that validates the subject, and so fetches the catalog, before
\* it looks at the term
ToolOutcome_FetchFirst(term, error, resolved, search_fails, request, result) ==
    IF resolved.raised
    THEN [response |-> [exception |-> "get_valid_values"], calls |-> resolved.calls]
    ELSE IF resolved.error # None
    THEN [response |-> [error |-> resolved.error[1]], calls |-> resolved.calls]
    ELSE IF ~validate_term(term)[1]
    THEN [response |-> [error |-> [msg |-> validate_term(term)[2]]], calls |-> resolved.calls]
    ELSE IF error # None
    THEN [response |-> [error |-> error[1]], calls |-> resolved.calls]
    ELSE IF search_fails
    THEN [response |-> [error |-> [msg |-> "Search failed"]],
          calls |-> resolved.calls \o <<request>>]
    ELSE [response |-> result, calls |-> resolved.calls \o <<request>>]

\* The steps the tools share, given the term, the error the tool's own
\* argument checks find, the outcome of the subject validation, the search
\* request and the result built from its answer: "is_valid, error_msg =
\* validate_term(term)" comes first, the catalog fetch is outside try/except,
\* the search is inside
ToolOutcome(term, error, resolved, search_fails, request, result) ==
    IF ~validate_term(term)[1]
    THEN [response |-> [error |-> [msg |-> validate_term(term)[2]]], calls |-> <<>>]
    ELSE IF error # None
    THEN [response |-> [error |-> error[1]], calls |-> <<>>]
    ELSE IF resolved.raised
    THEN [response |-> [exception |-> "get_valid_values"], calls |-> resolved.calls]
    ELSE IF resolved.error # None
    THEN [response |-> [error |-> resolved.error[1]], calls |-> resolved.calls]
    ELSE IF search_fails
    THEN [response |-> [error |-> [msg |-> "Search failed"]],
          calls |-> resolved.calls \o <<request>>]
    ELSE [response |-> result, calls |-> resolved.calls \o <<request>>]

\* search_classes: "Handle parameter aliases - merge into primary parameter
\* names"
MergeAliases(r) ==
    LET First(primary, alias) == IF Given(alias) /\ ~Given(primary) THEN alias ELSE primary
        FirstText(primary, alias) ==
            IF GivenText(alias) /\ ~GivenText(primary) THEN alias ELSE primary
        FirstFlag(primary, alias) == IF alias # None /\ primary = None THEN alias ELSE primary
        seats == FirstFlag(FirstFlag(r.has_open_seats, r.open_seats), r.available_seats)
    IN  [r EXCEPT
            !.subject = First(First(r.subject, r.subject_code), r.department),
            !.instructor_name = First(First(r.instructor_name, r.instructor), r.professor),
            !.has_open_seats =
                IF Given(r.availability) /\ seats = None
                THEN Some(Lower(r.availability[1]) \in
                          {<<"o","p","e","n">>, <<"a","v","a","i","l","a","b","l","e">>,
                           <<"t","r","u","e">>, <<"y","e","s">>})
                ELSE seats,
            !.catalog_number = First(First(r.catalog_number, r.course_number), r.number),
            !.academic_level = FirstText(r.academic_level, r.level),
            !.instruction_mode = FirstText(FirstText(r.instruction_mode, r.mode), r.delivery)]

\* search_classes(term, query, subject, ..., results_per_page) against the
\* store st, m being the arguments after the aliases are merged, resolved the
\* outcome of the subject validation, size the page size and total_hits the
\* total the store reports: the result returned (or the exception that
\* leaves the function) and the requests sent to the store
search_classes(m, st, resolved, size, total_hits) ==
    ToolOutcome(m.term, None, resolved, st.search_fails,
                [index |-> get_index_for_term(m.term),
                 body |-> [query |-> build_search_query([m EXCEPT !.subject = resolved.matched]),
                           from |-> (m.page - 1) * size,
                           size |-> size,
                           sort |-> <<"subject", "catalogNumber", "classSection">>]],
                IF total_hits = 0
                THEN [term |-> format_term_description(m.term),
                      total_results |-> 0,
                      message |-> "No classes found matching your criteria. Try broadening your search.",
                      classes |-> <<>>]
                ELSE [term |-> format_term_description(m.term),
                      total_results |-> total_hits,
                      page |-> m.page,
                      results_per_page |-> size,
                      showing |-> [first |-> (m.page - 1) * size + 1,
                                   last |-> IF (m.page - 1) * size + size < total_hits
                                            THEN (m.page - 1) * size + size ELSE total_hits,
                                   of |-> total_hits],
                      classes |-> [i \in 1..Len(st.hits) |-> format_class_summary(st.hits[i])],
                      note |-> IF Given(m.subject) /\ Given(resolved.matched)
                                  /\ Upper(m.subject[1]) # resolved.matched[1]
                               THEN Some([interpreted |-> m.subject[1], as |-> resolved.matched[1]])
                               ELSE None])

\* A variant that asks for one of the available days and forbids none
ScheduleFilterClauses_AnyDay(r, matched_subject, earliest_mins, latest_mins, day_order) ==
    <<RangeClause("meetingStartTimeInMinutes", [gte |-> earliest_mins]),
      RangeClause("meetingEndTimeInMinutes", [lte |-> latest_mins])>>
    \o <<[bool |-> [should |-> [i \in 1..Len(r.available_days) |->
                                   TermClause("meetingDays", r.available_days[i])],
                    minimum_should_match |-> 1]]>>
    \o (IF Given(matched_subject) THEN <<TermClause("subject", matched_subject[1])>> ELSE <<>>)
    \o KeywordClauses("academicCareer", r.academic_level)
    \o (IF r.has_open_seats THEN <<RangeClause("availableSeats", [gt |-> 0])>> ELSE <<>>)
    \o CreditClauses(r.min_credits, r.max_credits)

\* find_classes_by_schedule: the filter clauses, in the order they are
\* appended; unavailable_days is a set, day_order the order in which the
\* loop happens to visit the days of the week
ScheduleFilterClauses(r, matched_subject, earliest_mins, latest_mins, day_order) ==
    <<RangeClause("meetingStartTimeInMinutes", [gte |-> earliest_mins]),
      RangeClause("meetingEndTimeInMinutes", [lte |-> latest_mins])>>
    \o LET available == {r.available_days[i] : i \in 1..Len(r.available_days)}
           Unavailable(day) == day \notin available
           unavailable_days == SelectSeq(day_order, Unavailable)
       IN  [i \in 1..Len(unavailable_days) |->
               [bool |-> [must_not |-> TermClause("meetingDays", unavailable_days[i])]]]
    \o <<[bool |-> [should |-> [i \in 1..Len(r.available_days) |->
                                   TermClause("meetingDays", r.available_days[i])],
                    minimum_should_match |-> 1]]>>
    \o (IF Given(matched_subject) THEN <<TermClause("subject", matched_subject[1])>> ELSE <<>>)
    \o KeywordClauses("academicCareer", r.academic_level)
    \o (IF r.has_open_seats THEN <<RangeClause("availableSeats", [gt |-> 0])>> ELSE <<>>)
    \o CreditClauses(r.min_credits, r.max_credits)

\* find_classes_by_schedule(term, available_days, earliest_time, ...),
\* given the two parsed times and the outcome of the subject validation
find_classes_by_schedule(r, st, earliest_mins, latest_mins, resolved, day_order) ==
    ToolOutcome(r.term,
                IF earliest_mins = None
                THEN Some([msg |-> "Could not parse earliest_time. Use format like '9:00 AM' or '14:00'",
                           text |-> r.earliest_time])
                ELSE IF latest_mins = None
                THEN Some([msg |-> "Could not parse latest_time. Use format like '3:00 PM' or '15:00'",
                           text |-> r.latest_time])
                ELSE None,
                resolved, st.search_fails,
                [index |-> get_index_for_term(r.term),
                 body |-> [query |-> [bool |-> [filter |->
                               ScheduleFilterClauses(r, resolved.matched, earliest_mins[1],
                                                     latest_mins[1], day_order)]],
                           size |-> IF r.results_per_page < 50 THEN r.results_per_page ELSE 50,
                           sort |-> <<"subject", "catalogNumber">>]],
                LET total_hits == Get(st, "total", Len(st.hits))
                IN  IF total_hits = 0
                    THEN [term |-> format_term_description(r.term),
                          schedule_constraints |-> [days |-> r.available_days,
                                                    time_range |-> <<r.earliest_time, r.latest_time>>],
                          total_results |-> 0,
                          message |-> "No classes found matching your schedule. Try expanding your available times or days.",
                          classes |-> <<>>]
                    ELSE [term |-> format_term_description(r.term),
                          schedule_constraints |-> [days |-> r.available_days,
                                                    time_range |-> <<r.earliest_time, r.latest_time>>],
                          total_results |-> total_hits,
                          showing |-> IF r.results_per_page < total_hits
                                      THEN r.results_per_page ELSE total_hits,
                          classes |-> [i \in 1..Len(st.hits) |-> format_class_summary(st.hits[i])]])

\* search_by_instructor(term, instructor_name, subject, has_open_seats)
search_by_instructor(r, st) ==
    ToolOutcome(r.term,
                IF r.instructor_name = <<>> \/ Len(Strip(r.instructor_name)) < 2
                THEN Some([msg |-> "Instructor name must be at least 2 characters"])
                ELSE None,
                ResolveSubject(r, st), st.search_fails,
                [index |-> get_index_for_term(r.term),
                 body |-> [query |-> [bool |->
                               [must |-> InstructorClauses(Some(r.instructor_name)),
                                filter |->
                                    (IF Given(ResolveSubject(r, st).matched)
                                     THEN <<TermClause("subject", ResolveSubject(r, st).matched[1])>>
                                     ELSE <<>>)
                                    \o OpenSeatsClauses(r.has_open_seats)]],
                           size |-> 50,
                           sort |-> <<"subject", "catalogNumber">>]],
                IF Get(st, "total", Len(st.hits)) = 0
                THEN [term |-> format_term_description(r.term),
                      instructor_query |-> r.instructor_name,
                      total_results |-> 0,
                      message |-> "No classes found for instructor matching the name.",
                      classes |-> <<>>]
                ELSE [term |-> format_term_description(r.term),
                      instructor_query |-> r.instructor_name,
                      total_results |-> Get(st, "total", Len(st.hits)),
                      classes |-> [i \in 1..Len(st.hits) |-> format_class_summary(st.hits[i])]])

\* compare_sections(term, subject, catalog_number): the subject is always
\* validated; "documents[0]" is read inside try/except, so a total without
\* hits ends as a failed search does
compare_sections(r, st) ==
    ToolOutcome(r.term, None,
                validate_and_match_subject(st, get_index_for_term(r.term), r.subject),
                st.search_fails \/ (Get(st, "total", Len(st.hits)) # 0 /\ st.hits = <<>>),
                [index |-> get_index_for_term(r.term),
                 body |-> [query |-> [bool |-> [filter |->
                               <<TermClause("subject",
                                            validate_and_match_subject(
                                                st, get_index_for_term(r.term), r.subject).matched[1]),
                                 TermClause("catalogNumber", padded_catalog(r.catalog_number))>>]],
                           size |-> 50,
                           sort |-> <<"classSection">>]],
                IF Get(st, "total", Len(st.hits)) = 0
                THEN [term |-> format_term_description(r.term),
                      course |-> <<validate_and_match_subject(
                                       st, get_index_for_term(r.term), r.subject).matched[1],
                                   Strip(r.catalog_number)>>,
                      total_sections |-> 0,
                      message |-> "No sections found. Verify the course exists this term.",
                      sections |-> <<>>]
                ELSE [term |-> format_term_description(r.term),
                      course |-> <<validate_and_match_subject(
                                       st, get_index_for_term(r.term), r.subject).matched[1],
                                   Strip(r.catalog_number)>>,
                      total_sections |-> Get(st, "total", Len(st.hits)),
                      sections |-> [i \in 1..Len(st.hits) |->
                          [schedule |-> format_class_summary(st.hits[i]),
                           available_seats |-> Get(st.hits[i], "availableSeats", 0)]]])

\* A variant that reports a class with no seat left as open
AvailabilityStatus_ZeroIsOpen(available, waitlist_cap, waitlist_total) ==
    IF available >= 0 THEN "OPEN"
    ELSE IF waitlist_cap > 0 /\ waitlist_total < waitlist_cap THEN "WAITLIST AVAILABLE"
    ELSE "FULL"

\* check_availability: "Determine status"
AvailabilityStatus(available, waitlist_cap, waitlist_total) ==
    IF available > 0 THEN "OPEN"
    ELSE IF waitlist_cap > 0 /\ waitlist_total < waitlist_cap THEN "WAITLIST AVAILABLE"
    ELSE "FULL"

\* check_availability(term, class_number): no subject, one search for the
\* class, whose first hit is read inside try/except
check_availability(r, st) ==
    LET request == [index |-> get_index_for_term(r.term),
                    body |-> [query |-> TermClause("classNumber", Strip(r.class_number)),
                              size |-> 1]]
    IN  IF ~validate_term(r.term)[1]
        THEN [response |-> [error |-> [msg |-> validate_term(r.term)[2]]], calls |-> <<>>]
        ELSE IF r.class_number = <<>>
        THEN [response |-> [error |-> [msg |-> "Class number is required"]], calls |-> <<>>]
        ELSE IF st.search_fails
        THEN [response |-> [error |-> [msg |-> "Lookup failed"]], calls |-> <<request>>]
        ELSE IF Get(st, "total", Len(st.hits)) = 0
        THEN [response |-> [term |-> format_term_description(r.term),
                            class_number |-> r.class_number,
                            error |-> [msg |-> "No class found with number"]],
              calls |-> <<request>>]
        ELSE IF st.hits = <<>>
        THEN [response |-> [error |-> [msg |-> "Lookup failed"]], calls |-> <<request>>]
        ELSE [response |->
                 [term |-> format_term_description(r.term),
                  class_number |-> r.class_number,
                  status |-> AvailabilityStatus(Get(st.hits[1], "availableSeats", 0),
                                                Get(st.hits[1], "waitListCapacity", 0),
                                                Get(st.hits[1], "waitListTotal", 0)),
                  capacity |-> Get(st.hits[1], "classCapacity", 0),
                  enrolled |-> Get(st.hits[1], "enrollmentTotal", 0),
                  available_seats |-> Get(st.hits[1], "availableSeats", 0),
                  waitlist_capacity |-> Get(st.hits[1], "waitListCapacity", 0),
                  waitlist_enrolled |-> Get(st.hits[1], "waitListTotal", 0)],
              calls |-> <<request>>]

---------------------------------------------------------------------------
(* The tools exercised: operations one after the other against a store     *)
(* whose catalog and classes may change between two operations.            *)

\* A variant that keeps the catalog an earlier operation fetched and
\* resolves against it
CatalogSeenBy_Cached(st, earlier) ==
    IF earlier # <<>> THEN [st EXCEPT !.subjects = earlier] ELSE st

\* The store as an operation finds it, earlier being the catalog an earlier
\* operation fetched: get_opensearch_client makes a new client for each
\* request and get_valid_values asks the store, nothing is kept
CatalogSeenBy(st, earlier) == st

\* The tool named in a request, run against the store; day_order is the
\* order in which a loop over a set of days visits the days of the week
RunTool(r, st, day_order) ==
    CASE r.tool = "search_classes" ->
             search_classes(MergeAliases(r), st, ResolveSubject(MergeAliases(r), st),
                            IF r.results_per_page < 50 THEN r.results_per_page ELSE 50,
                            Get(st, "total", Len(st.hits)))
      [] r.tool = "find_classes_by_schedule" ->
             find_classes_by_schedule(r, st, time_to_minutes(r.earliest_time),
                                      time_to_minutes(r.latest_time),
                                      ResolveSubject(r, st), day_order)
      [] r.tool = "search_by_instructor" -> search_by_instructor(r, st)
      [] r.tool = "compare_sections" ->
             compare_sections([r EXCEPT !.subject = r.subject[1]], st)
      [] r.tool = "check_schedule_conflicts" -> check_schedule_conflicts(r, st)
      [] r.tool = "check_availability" -> check_availability(r, st)

\* The calls of the tools: terms the validation accepts and rejects,
\* subjects that are in a catalog, that resolve to one and that do not, time
\* texts that parse and that do not, complete and incomplete avoid blocks
ToolCalls ==
    LET terms == {<<"1","2","6","3">>, <<"1","2","6">>}
        subjects == {None, Some(<<"c","s">>), Some(<<"p","h","y","s">>), Some(<<"x","y","z","1","2","3">>), Some(<<" ">>)}
        search == [AllFilters EXCEPT !["subject"] = None, !["start_time"] = None, !["end_time"] = None]
                  @@ [tool |-> "search_classes", term |-> <<"1","2","6","3">>, page |-> 1,
                      results_per_page |-> 10, subject_code |-> None, department |-> None,
                      instructor |-> None, professor |-> None, open_seats |-> None,
                      available_seats |-> None, availability |-> None, course_number |-> None,
                      number |-> None, level |-> None, mode |-> None, delivery |-> None]
        bare == Only({})
                @@ [tool |-> "search_classes", term |-> <<"1","2","6","3">>, page |-> 2,
                    results_per_page |-> 60, subject_code |-> None, department |-> None,
                    instructor |-> None, professor |-> None, open_seats |-> None,
                    available_seats |-> None, availability |-> None, course_number |-> None,
                    number |-> None, level |-> None, mode |-> None, delivery |-> None]
        schedule == [tool |-> "find_classes_by_schedule", term |-> <<"1","2","6","3">>,
                     available_days |-> MWF, earliest_time |-> <<"9",":","0","0"," ","A","M">>,
                     latest_time |-> <<"1","7",":","0","0">>, subject |-> None,
                     academic_level |-> None, has_open_seats |-> TRUE, min_credits |-> None,
                     max_credits |-> None, results_per_page |-> 20]
        instructor == [tool |-> "search_by_instructor", term |-> <<"1","2","6","3">>,
                       instructor_name |-> <<"S","m","i","t","h">>, subject |-> None,
                       has_open_seats |-> None]
        sections == [tool |-> "compare_sections", term |-> <<"1","2","6","3">>,
                     subject |-> Some(<<"c","s">>), catalog_number |-> <<"1","2","1">>]
        conflicts == BaseReq @@ [tool |-> "check_schedule_conflicts"]
        availability == [tool |-> "check_availability", term |-> <<"1","2","6","3">>,
                         class_number |-> <<"1","1","0","3","9">>]
    IN  {[search EXCEPT !.term = t, !.subject = sub] : t \in terms, sub \in subjects}
        \cup {[bare EXCEPT !.subject = sub, !.subject_code = code, !.department = dep] :
                 sub \in {None, Some(<<>>), Some(<<"c","s">>)},
                 code \in {None, Some(<<"m","a","t","h">>)},
                 dep \in {None, Some(<<"b","i","o","l","o","g","y">>)}}
        \cup {[bare EXCEPT !.start_time = a, !.end_time = b, !.subject = sub] :
                 a \in {None, Some(<<"9",":","0","0"," ","A","M">>), Some(<<"n","o","o","n">>)},
                 b \in {None, Some(<<"1","7",":","0","0">>), Some(<<"l","a","t","e","r">>)},
                 sub \in {None, Some(<<"c","s">>)}}
        \cup {[bare EXCEPT !.has_open_seats = a, !.open_seats = b, !.availability = c] :
                 a \in {None, Some(FALSE)}, b \in {None, Some(TRUE)},
                 c \in {None, Some(<<"O","p","e","n">>), Some(<<"f","u","l","l">>)}}
        \cup {[bare EXCEPT !.number = Some(<<"3","*">>), !.level = Some("GRAD"),
                           !.delivery = Some("Online"), !.professor = Some(<<"V","a","i","l">>)],
              [search EXCEPT !.course_number = Some(<<"7">>), !.mode = Some("Hybrid"),
                             !.instructor = Some(<<"V","a","i","l">>), !.available_seats = Some(FALSE)]}
        \cup {[schedule EXCEPT !.term = t, !.subject = sub, !.available_days = days] :
                 t \in terms, sub \in subjects,
                 days \in {MWF, TTh, <<>>, <<"Saturday", "Saturday">>}}
        \cup {[schedule EXCEPT !.earliest_time = a, !.latest_time = b, !.subject = sub] :
                 a \in {<<"9",":","0","0"," ","A","M">>, <<"n","o","o","n">>, <<>>},
                 b \in {<<"1","7",":","0","0">>, <<"l","a","t","e","r">>, <<"8",":","0","0">>},
                 sub \in {None, Some(<<"c","s">>)}}
        \cup {[schedule EXCEPT !.has_open_seats = open, !.min_credits = cr,
                               !.academic_level = lvl] :
                 open \in BOOLEAN, cr \in {None, Some(3)}, lvl \in {None, Some("UGRD")}}
        \cup {[instructor EXCEPT !.term = t, !.subject = sub, !.instructor_name = name,
                                 !.has_open_seats = IF sub = None THEN Some(TRUE) ELSE None] :
                 t \in terms, sub \in subjects,
                 name \in {<<"S","m","i","t","h">>, <<"S">>, <<" ","S"," ">>, <<>>}}
        \cup {[sections EXCEPT !.term = t, !.subject = sub, !.catalog_number = n] :
                 t \in terms, sub \in (subjects \ {None}) \cup {Some(<<>>)},
                 n \in {<<"1","2","1">>, <<" ","7"," ">>}}
        \cup {[conflicts EXCEPT !.term = t, !.subject = sub, !.existing_classes = b] :
                 t \in terms, sub \in subjects,
                 b \in {<<>>, <<BlockTTh, BlockMWF>>, <<BlockMWF, BlockReversed>>,
                        <<BlockMWF, Block(MWF, <<"n","o","o","n">>, <<"1"," ","P","M">>)>>,
                        <<Block(TTh, <<"9",":","0","0">>, <<"l","a","t","e","r">>)>>}}
        \cup {[availability EXCEPT !.term = t, !.class_number = n] :
                 t \in terms, n \in {<<"1","1","0","3","9">>, <<" ","1","1","0","3","9"," ">>, <<>>}}

\* The stores: two catalogs, fetches that fail, no class, classes with a
\* meeting pattern, classes with every combination of seat and waitlist
\* counts, a total without its hits
Stores ==
    {[BaseStore EXCEPT !.subjects = c, !.catalog_fails = cf, !.search_fails = sf] :
        c \in {BaseStore.subjects, <<<<"P","H","Y","S">>, <<"C","S">>>>, <<>>},
        cf \in BOOLEAN, sf \in BOOLEAN}
    \cup {[BaseStore EXCEPT !.hits = <<>>], BaseStore @@ [total |-> 75],
          [BaseStore EXCEPT !.hits = <<>>] @@ [total |-> 3],
          [BaseStore EXCEPT !.hits = <<[classNumber |-> "11039"]>>]}
    \cup {[BaseStore EXCEPT !.hits = <<[classNumber |-> "11039",
                                        classCapacity |-> 30,
                                        enrollmentTotal |-> 30 - a,
                                        availableSeats |-> a,
                                        waitListCapacity |-> c,
                                        waitListTotal |-> t]>>] :
             a \in {0 - 1, 0, 1}, c \in {0 - 1, 0, 2}, t \in {0, 2, 3}}

ToolsInit ==
    /\ TimeIdle
    /\ ResolverIdle
    /\ pc = "ready"
    /\ req = None
    /\ store = BaseStore
    /\ resp = None
    /\ calls = <<>>
    /\ kept = <<>>

\* The end of an operation: the response goes to the caller; res_catalog
\* is the catalog the operation fetched, if it fetched one
Returns(r, out, seen) ==
    /\ req' = Some(r)
    /\ resp' = Some(out.response)
    /\ calls' = out.calls
    /\ kept' = Get(out, "non_conflicting", <<>>)
    /\ res_catalog' = IF (\E i \in 1..Len(out.calls) : "aggs" \in DOMAIN out.calls[i].body)
                         /\ ~seen.catalog_fails
                      THEN seen.subjects ELSE <<>>

\* One operation: a tool is called and runs to its end against the store
CallTool ==
    /\ pc = "ready"
    /\ \E r \in ToolCalls :
         \E day_order \in
               IF r.tool = "find_classes_by_schedule"
               THEN {<<"Monday", "Tuesday", "Wednesday", "Thursday", "Friday", "Saturday", "Sunday">>,
                     <<"Sunday", "Saturday", "Friday", "Thursday", "Wednesday", "Tuesday", "Monday">>,
                     <<"Thursday", "Monday", "Sunday", "Tuesday", "Saturday", "Friday", "Wednesday">>}
               ELSE {<<>>} :
           Returns(r, RunTool(r, CatalogSeenBy(store, res_catalog), day_order),
                   CatalogSeenBy(store, res_catalog))
    /\ pc' = "returned"
    /\ UNCHANGED <<store, res_input, res_threshold, res_result, timeVars>>

\* Between two operations the store may change
NextOperation ==
    /\ pc = "returned"
    /\ store' \in Stores
    /\ pc' = "ready"
    /\ req' = None
    /\ resp' = None
    /\ calls' = <<>>
    /\ kept' = <<>>
    /\ UNCHANGED <<resolverVars, timeVars>>

SpecTools == ToolsInit /\ [][CallTool \/ NextOperation]_vars

---------------------------------------------------------------------------
(* The matching and filtering functions invoked concurrently: each         *)
(* invocation binds its arguments to its own parameters and local          *)
(* variables, runs, and returns.  pc, req, kept and resp have one entry    *)
(* per invocation; kept holds the invocation's parameters.                 *)

MaxInvocations == 2

Invocations == 1..MaxInvocations

\* The function of a call applied to its arguments: the functions read
\* nothing but their parameters
Invoke(call) ==
    [fn |-> call.fn,
     value |->
        CASE call.fn = "time_to_minutes" -> time_to_minutes(call.args[1])
          [] call.fn = "minutes_to_time" -> minutes_to_time(call.args[1])
          [] call.fn = "fuzzy_match_value" ->
                 fuzzy_match_value(call.args[1], call.args[2], call.args[3])
          [] call.fn = "build_search_query" -> build_search_query(call.args[1])
          [] call.fn = "conflict_filter" -> NonConflicting(call.args[1], call.args[2])]

PureInit ==
    /\ TimeIdle
    /\ ResolverIdle
    /\ pc = [i \in Invocations |-> "idle"]
    /\ req = [i \in Invocations |-> None]
    /\ kept = [i \in Invocations |-> None]
    /\ resp = [i \in Invocations |-> None]
    /\ store = None
    /\ calls = <<>>

\* A variant in which the parameters live in one place that all invocations
\* share
Enter_SharedLocals(i) ==
    /\ pc[i] # "running"
    /\ \E call \in
           {[fn |-> "time_to_minutes", args |-> <<t>>] :
               t \in {<<"9",":","0","0"," ","A","M">>, <<"1","7",":","0","0">>,
                      <<"n","o","o","n">>}}
           \cup {[fn |-> "minutes_to_time", args |-> <<m>>] : m \in {0, 540, 1439}}
           \cup {[fn |-> "fuzzy_match_value", args |-> <<t, c, DefaultThreshold>>] :
                    t \in {<<"c","s">>, <<"p","h","y","s">>},
                    c \in {BaseStore.subjects, <<<<"P","H","Y","S">>, <<"C","S">>>>}}
           \cup {[fn |-> "build_search_query", args |-> <<f>>] :
                    f \in {AllFilters, Only({}), Only({"subject"})}}
           \cup {[fn |-> "conflict_filter",
                  args |-> <<BaseStore.hits, ParseBlocks(<<b>>, 15).blocks>>] :
                    b \in {BlockMWF, BlockTTh}} :
         /\ req' = [req EXCEPT ![i] = Some(call)]
         /\ kept' = [j \in Invocations |-> Some(call)]
    /\ pc' = [pc EXCEPT ![i] = "running"]
    /\ resp' = [resp EXCEPT ![i] = None]
    /\ UNCHANGED <<store, calls, timeVars, resolverVars>>

\* Invocation i is called: the arguments are bound to its parameters
Enter(i) ==
    /\ pc[i] # "running"
    /\ \E call \in
           {[fn |-> "time_to_minutes", args |-> <<t>>] :
               t \in {<<"9",":","0","0"," ","A","M">>, <<"1","7",":","0","0">>,
                      <<"n","o","o","n">>}}
           \cup {[fn |-> "minutes_to_time", args |-> <<m>>] : m \in {0, 540, 1439}}
           \cup {[fn |-> "fuzzy_match_value", args |-> <<t, c, DefaultThreshold>>] :
                    t \in {<<"c","s">>, <<"p","h","y","s">>},
                    c \in {BaseStore.subjects, <<<<"P","H","Y","S">>, <<"C","S">>>>}}
           \cup {[fn |-> "build_search_query", args |-> <<f>>] :
                    f \in {AllFilters, Only({}), Only({"subject"})}}
           \cup {[fn |-> "conflict_filter",
                  args |-> <<BaseStore.hits, ParseBlocks(<<b>>, 15).blocks>>] :
                    b \in {BlockMWF, BlockTTh}} :
         /\ req' = [req EXCEPT ![i] = Some(call)]
         /\ kept' = [kept EXCEPT ![i] = Some(call)]
    /\ pc' = [pc EXCEPT ![i] = "running"]
    /\ resp' = [resp EXCEPT ![i] = None]
    /\ UNCHANGED <<store, calls, timeVars, resolverVars>>

\* Invocation i runs to its end on its own parameters and returns
Leave(i) ==
    /\ pc[i] = "running"
    /\ resp' = [resp EXCEPT ![i] = Some(Invoke(kept[i][1]))]
    /\ pc' = [pc EXCEPT ![i] = "done"]
    /\ UNCHANGED <<req, kept, store, calls, timeVars, resolverVars>>

SpecPure == PureInit /\ [][\E i \in Invocations : Enter(i) \/ Leave(i)]_vars

---------------------------------------------------------------------------
(* Properties of the tools, on SpecTools                                   *)

\* An operation has ended; Asked is its call
Returned == pc = "returned" /\ req # None

Asked == req[1]

\* The searches for classes among the requests of the operation, and the
\* catalog fetches
Searches == SelectSeq(calls, LAMBDA c : "query" \in DOMAIN c.body)

Fetches == SelectSeq(calls, LAMBDA c : "aggs" \in DOMAIN c.body)

\* The operation returned an error result
ReturnedError == resp # None /\ "error" \in DOMAIN resp[1]

\* The operation ended with an exception that left the tool
Raised == resp # None /\ "exception" \in DOMAIN resp[1]

\* The call has a time text that time_to_minutes cannot read, in a filter
\* the tool takes: start_time and end_time of search_classes, earliest_time
\* and latest_time of find_classes_by_schedule, the times of the avoid blocks
HasMalformedTime(r) ==
    CASE r.tool = "search_classes" ->
             \/ Given(r.start_time) /\ time_to_minutes(r.start_time[1]) = None
             \/ Given(r.end_time) /\ time_to_minutes(r.end_time[1]) = None
      [] r.tool = "find_classes_by_schedule" ->
             \/ time_to_minutes(r.earliest_time) = None
             \/ time_to_minutes(r.latest_time) = None
      [] r.tool = "check_schedule_conflicts" ->
             \E i \in 1..Len(r.existing_classes) :
                 \/ time_to_minutes(r.existing_classes[i].items.start_time) = None
                 \/ time_to_minutes(r.existing_classes[i].items.end_time) = None
      [] OTHER -> FALSE

\* The errors that name a time field that could not be parsed
TimeParseErrors ==
    {"Could not parse earliest_time. Use format like '9:00 AM' or '14:00'",
     "Could not parse latest_time. Use format like '3:00 PM' or '15:00'",
     "Could not parse start_time in existing_classes[i]",
     "Could not parse end_time in existing_classes[i]"}

\* C21: an operation whose term is valid and that was given a time text
\* that cannot be parsed returns an error that names a time field, and sends
\* no search to the store.
C21_MalformedTimeRejected ==
    Returned /\ validate_term(Asked.term)[1] /\ HasMalformedTime(Asked) =>
        /\ ReturnedError
        /\ resp[1].error.msg \in TimeParseErrors
        /\ Searches = <<>>

\* C22 (on SpecConflict): when check_schedule_conflicts accepted the avoid
\* blocks and went on to search, every block of the request has a start and
\* an end within the day, 0 to 1439 minutes, and starts before it ends.
C22_AcceptedBlocksOrdered ==
    pc = "returned" /\ calls # <<>> =>
        \A i \in 1..Len(req.existing_classes) :
            /\ BlockStart(i) \in DayMinutes
            /\ BlockEnd(i) \in DayMinutes
            /\ BlockStart(i) < BlockEnd(i)

\* Request i of the operation failed: a catalog fetch against a store whose
\* catalog fetch fails, or a search against a store whose search fails
FailedAt(i) ==
    \/ "aggs" \in DOMAIN calls[i].body /\ store.catalog_fails
    \/ "query" \in DOMAIN calls[i].body /\ store.search_fails

\* C23: when a request of an operation to the store fails, the operation
\* returns an error result, no exception leaves the tool, and the failed
\* request is the last one the operation sends.
C23_StoreFailureIsError ==
    Returned =>
        \A i \in 1..Len(calls) :
            FailedAt(i) => ReturnedError /\ ~Raised /\ i = Len(calls)

\* The subject the operation was asked for, after search_classes merged
\* its aliases; None for a tool without a subject
AskedSubject ==
    CASE Asked.tool = "search_classes" -> MergeAliases(Asked).subject
      [] Asked.tool = "check_availability" -> None
      [] OTHER -> Asked.subject

\* The operation has a subject to resolve: compare_sections always has
Resolves == Asked.tool = "compare_sections" \/ Given(AskedSubject)

\* The avoid blocks of the call all passed the block loop
BlocksAccepted ==
    Asked.tool = "check_schedule_conflicts" =>
        /\ Asked.existing_classes # <<>>
        /\ ParseBlocks(Asked.existing_classes, Asked.buffer_minutes).error = None

\* C24: an operation sends a request to the store only after the term was
\* found valid and, in check_schedule_conflicts, every avoid block was
\* accepted; when it searches for classes, the search is its last request,
\* and if it has a subject to resolve the catalog fetch came before it.
C24_StepsInOrder ==
    Returned =>
        /\ calls # <<>> => validate_term(Asked.term)[1] /\ BlocksAccepted
        /\ Searches # <<>> =>
               /\ Len(Searches) = 1
               /\ "query" \in DOMAIN calls[Len(calls)].body
               /\ Resolves => Len(calls) = 2 /\ "aggs" \in DOMAIN calls[1].body
               /\ ~Resolves => Len(calls) = 1

\* search_classes with a subject: the catalog fetch, then the search, then
\* the result
C24_Witness ==
    /\ Returned
    /\ Asked.tool = "search_classes"
    /\ Asked.subject = Some(<<"p","h","y","s">>)
    /\ Len(calls) = 2
    /\ "aggs" \in DOMAIN calls[1].body
    /\ "query" \in DOMAIN calls[2].body
    /\ "classes" \in DOMAIN resp[1]

\* The values of the subject clauses of the search the operation sent
SubjectValues ==
    IF Searches = <<>> \/ "bool" \notin DOMAIN Searches[1].body.query
    THEN <<>>
    ELSE LET filter == Searches[1].body.query.bool.filter
             OnSubject(c) == "term" \in DOMAIN c /\ c.term.field = "subject"
             clauses == SelectSeq(filter, OnSubject)
         IN  [i \in 1..Len(clauses) |-> clauses[i].term.value]

\* C25: an operation that searches with a subject to resolve fetched the
\* catalog itself, once; and an operation whose catalog fetch succeeded
\* resolved its subject against the catalog the store holds during that
\* operation, whatever catalogs earlier operations saw: it searches with the
\* value fuzzy_match_value finds in that catalog, or returns an error and
\* does not search when there is none.
C25_ResolvesAgainstFetched ==
    Returned =>
        /\ Searches # <<>> /\ Resolves => Len(Fetches) = 1
        /\ Fetches # <<>> /\ ~store.catalog_fails =>
               /\ res_catalog = store.subjects
               /\ LET matched == fuzzy_match_value(AskedSubject[1], store.subjects,
                                                   DefaultThreshold)
                  IN  IF matched # None /\ matched[1] # <<>>
                      THEN Len(Searches) = 1 /\ SubjectValues = <<matched[1]>>
                      ELSE ReturnedError /\ Searches = <<>>

\* The store's catalog has changed to PHYS, CS since the first operation;
\* "phys" resolves to PHYS, a value the first catalog did not have
C25_Witness ==
    /\ Returned
    /\ Asked.tool = "find_classes_by_schedule"
    /\ Asked.subject = Some(<<"p","h","y","s">>)
    /\ store.subjects = <<<<"P","H","Y","S">>, <<"C","S">>>>
    /\ res_catalog = store.subjects
    /\ Len(Fetches) = 1
    /\ SubjectValues = <<<<"P","H","Y","S">>>>

\* The days of the week
Week == {"Monday", "Tuesday", "Wednesday", "Thursday", "Friday", "Saturday", "Sunday"}

\* The clauses on the meeting days in the search find_classes_by_schedule
\* sent: the bool clauses of its filter
DayPart ==
    SelectSeq(Searches[1].body.query.bool.filter, LAMBDA c : "bool" \in DOMAIN c)

\* A record with these meeting days matches every clause of the day part
DaysMatch(days) ==
    \A i \in 1..Len(DayPart) : Matches([meetingDays |-> days], DayPart[i])

\* The days the caller is available on
AvailableDays == {Asked.available_days[i] : i \in 1..Len(Asked.available_days)}

\* C27: in the search find_classes_by_schedule sends, the clauses on the
\* meeting days are one must_not clause for each day of the week outside
\* available_days and one should list over the days of available_days with
\* minimum_should_match 1; a record matches them exactly when its set of
\* meeting days is not empty and is a subset of available_days.
C27_DaysNonEmptySubset ==
    Returned /\ Asked.tool = "find_classes_by_schedule" /\ Searches # <<>> =>
        /\ {DayPart[i].bool.must_not.term.value :
                i \in {k \in 1..Len(DayPart) : "must_not" \in DOMAIN DayPart[k].bool}}
               = Week \ AvailableDays
        /\ Len(DayPart) = Cardinality(Week \ AvailableDays) + 1
        /\ "should" \in DOMAIN DayPart[Len(DayPart)].bool
        /\ DayPart[Len(DayPart)].bool.minimum_should_match = 1
        /\ \A days \in SUBSET Week :
               DaysMatch(days) <=> days # {} /\ days \subseteq AvailableDays

\* Available on Monday, Wednesday and Friday: a Monday-Wednesday class
\* matches, a Monday-Tuesday class and a class without meeting days do not
C27_Witness ==
    /\ Returned
    /\ Asked.tool = "find_classes_by_schedule"
    /\ Asked.available_days = MWF
    /\ Searches # <<>>
    /\ Len(DayPart) = 5
    /\ DaysMatch({"Monday", "Wednesday"})
    /\ ~DaysMatch({"Monday", "Tuesday"})
    /\ ~DaysMatch({})

\* The counts of the class check_availability found: a count the record
\* does not have reads as 0
SeatsAvailable == Get(store.hits[1], "availableSeats", 0)

WaitlistCapacity == Get(store.hits[1], "waitListCapacity", 0)

WaitlistTotal == Get(store.hits[1], "waitListTotal", 0)

\* check_availability found the class and reports on it
Reported == Returned /\ Asked.tool = "check_availability" /\ "status" \in DOMAIN resp[1]

\* C28: the status check_availability reports is one of OPEN, WAITLIST
\* AVAILABLE and FULL: OPEN exactly when the available seats are above 0,
\* WAITLIST AVAILABLE exactly when they are not, the waitlist capacity is
\* above 0 and the waitlist total is below the capacity, FULL in every
\* other case.
C28_StatusBySeats ==
    Reported =>
        /\ resp[1].status \in {"OPEN", "WAITLIST AVAILABLE", "FULL"}
        /\ resp[1].status = "OPEN" <=> SeatsAvailable > 0
        /\ resp[1].status = "WAITLIST AVAILABLE"
               <=> SeatsAvailable <= 0 /\ WaitlistCapacity > 0
                   /\ WaitlistTotal < WaitlistCapacity
        /\ resp[1].status = "FULL"
               <=> SeatsAvailable <= 0
                   /\ ~(WaitlistCapacity > 0 /\ WaitlistTotal < WaitlistCapacity)

\* No seat left, a waitlist of 2 with nobody on it
C28_Witness ==
    /\ Reported
    /\ SeatsAvailable = 0
    /\ WaitlistCapacity = 2
    /\ WaitlistTotal = 0
    /\ resp[1].status = "WAITLIST AVAILABLE"

\* The values of a catalog
CatalogValues(catalog) == {catalog[i] : i \in 1..Len(catalog)}

\* C30: an operation that was given a subject that is not empty and for
\* which the store's catalog has no value sends no search, and returns an
\* error result when the catalog could be fetched; an operation that was
\* given such a subject and searches has exactly one subject clause in its
\* search; and the value of every subject clause of a search is a value of
\* the catalog the operation fetched.
C30_UnknownSubjectStops ==
    Returned =>
        /\ Given(AskedSubject) =>
               /\ fuzzy_match_value(AskedSubject[1], store.subjects, DefaultThreshold) = None
                      => /\ Searches = <<>>
                         /\ ~store.catalog_fails => ReturnedError
               /\ Searches # <<>> => Len(SubjectValues) = 1
        /\ \A i \in 1..Len(SubjectValues) :
               /\ Fetches # <<>>
               /\ SubjectValues[i] \in CatalogValues(res_catalog)

\* search_by_instructor with the subject xyz123, which the catalog does not
\* have: the catalog is fetched, an error is returned, nothing is searched
C30_Witness ==
    /\ Returned
    /\ Asked.tool = "search_by_instructor"
    /\ Asked.subject = Some(<<"x","y","z","1","2","3">>)
    /\ Len(Fetches) = 1
    /\ res_catalog = store.subjects
    /\ res_catalog # <<>>
    /\ ReturnedError
    /\ Searches = <<>>

---------------------------------------------------------------------------
(* Properties of the concurrent invocations, on SpecPure                   *)

===========================================================================
